---- MODULE Spec2Model ----
(***************************************************************************)
(* A model of bytemare/hash2curve: the RFC 9380 message expanders          *)
(* (expand_message_xmd / expand_message_xof), hash_to_field, and the       *)
(* lazily initialised NIST curve descriptors.                              *)
(*                                                                         *)
(* Byte strings are sequences over 0..255.  The hash primitives are        *)
(* external to the repository (crypto.Hash, bytemare/hash); they are       *)
(* represented by a streaming checksum that keeps what the library relies  *)
(* on: the object is reset/written/summed, the digest has Size() bytes and *)
(* depends on every byte absorbed since the last Reset.                    *)
(*                                                                         *)
(* A Go panic is a result whose err field names the error value.           *)
(***************************************************************************)
EXTENDS Integers, Sequences, FiniteSets, TLC

(***************************************************************************)
(* Bounds of the model.                                                    *)
(***************************************************************************)
MaxMsgLen == 1
MaxCount == 2
MaxExt == 2

(***************************************************************************)
(* Program constants.                                                      *)
(***************************************************************************)
minLength == 0
recommendedMinLength == 16
dstMaxLength == 255
MaxUint8 == 255
MaxUint16 == 65535

\* "H2C-OVERSIZE-DST-"
dstLongPrefix == <<72, 50, 67, 45, 79, 86, 69, 82, 83, 73, 90, 69, 45, 68, 83, 84, 45>>

\* The fixed-length hashes the library's ciphersuites use, with Size() and
\* BlockSize() of each; crypto.Hash(0) ("none") is not available.
HashIds == {"SHA256", "SHA384", "SHA512"}
HashSize == [SHA256 |-> 32, SHA384 |-> 48, SHA512 |-> 64]
HashBlockSize == [SHA256 |-> 64, SHA384 |-> 128, SHA512 |-> 128]

\* The extendable output functions, with SecurityLevel() in bits and Size().
XofIds == {"SHAKE128", "SHAKE256"}
XofSecurityLevel == [SHAKE128 |-> 128, SHAKE256 |-> 256]
XofSize == [SHAKE128 |-> 32, SHAKE256 |-> 64]

(***************************************************************************)
(* Helpers on integers and bytes.                                          *)
(***************************************************************************)
Abs(x) == IF x < 0 THEN -x ELSE x

\* math.Ceil(float64(n) / float64(d)) for the integers of the model (exact
\* in float64 below 2^53).
CeilDiv(n, d) == (n + d - 1) \div d

RECURSIVE XorBits(_, _, _)
XorBits(a, b, bits) ==
    IF bits = 0 THEN 0
    ELSE ((a + b) % 2) + 2 * XorBits(a \div 2, b \div 2, bits - 1)

\* a ^ b on bytes
XorByte(a, b) == XorBits(a, b, 8)

\* Loops over a range are split in halves, the first half evaluated before
\* the second, which keeps the depth of evaluation logarithmic.
\* The big-endian value of s[lo..hi] appended to acc, modulo m.
RECURSIVE OS2IPModRange(_, _, _, _, _)
OS2IPModRange(acc, s, lo, hi, m) ==
    IF lo > hi THEN acc
    ELSE IF lo = hi THEN (acc * 256 + s[lo]) % m
    ELSE LET mid == (lo + hi) \div 2
             a == OS2IPModRange(acc, s, lo, mid, m)
         IN  IF a >= 0 THEN OS2IPModRange(a, s, mid + 1, hi, m) ELSE a

Zeros(n) == [i \in 1..n |-> 0]

Panic(e) == [err |-> e, out |-> <<>>]

(***************************************************************************)
(* I2osp: integer to octet string on at most 4 bytes.                      *)
(*                                                                         *)
(* A uint is held as two 16-bit halves, [hi, lo] for hi * 2^16 + lo, which *)
(* reaches 2^32.  The width of uint is that of the build: 32 or 64 bits.   *)
(***************************************************************************)
Half == 65536
UintWidths == {32, 64}

Wide(v) == [hi |-> v \div Half, lo |-> v % Half]

WideAtLeast(w, t) == w.hi > t.hi \/ (w.hi = t.hi /\ w.lo >= t.lo)

\* binary.BigEndian.PutUint16(out, uint16(v)) on out = make([]byte, 4)
PutUint16(w) == <<w.lo \div 256, w.lo % 256, 0, 0>>

\* binary.BigEndian.PutUint32(out, uint32(v))
PutUint32(w) ==
    <<(w.hi \div 256) % 256, w.hi % 256, w.lo \div 256, w.lo % 256>>

\* 1 << (8 * length) in a uint of the given width, for length in 1..4: a
\* shift by the width or more gives 0.
ShiftOne(length, bits) ==
    IF 8 * length >= bits THEN Wide(0)
    ELSE IF length = 1 THEN Wide(256)
    ELSE IF length = 2 THEN [hi |-> 1, lo |-> 0]
    ELSE IF length = 3 THEN [hi |-> 256, lo |-> 0]
    ELSE [hi |-> Half, lo |-> 0]

\* I2ospTooLarge with the comparison strict: the first value that does not
\* fit is let through.
I2ospTooLargeStrict(w, length, bits) ==
    WideAtLeast(w, ShiftOne(length, bits)) /\ w # ShiftOne(length, bits)

\* case v >= 1<<(8*length)
I2ospTooLarge(w, length, bits) == WideAtLeast(w, ShiftOne(length, bits))

\* I2osp on a build whose uint has the given width.
I2ospWide(w, length, bits) ==
    IF length <= 0 THEN Panic("errLengthNegative")
    ELSE IF length > 4 THEN Panic("errLengthTooBig")
    ELSE IF I2ospTooLarge(w, length, bits) THEN Panic("errInputLarge")
    ELSE IF length = 1 THEN [err |-> "", out |-> SubSeq(PutUint16(w), 2, 2)]
    ELSE IF length = 2 THEN [err |-> "", out |-> SubSeq(PutUint16(w), 1, 2)]
    ELSE IF length = 3 THEN [err |-> "", out |-> SubSeq(PutUint32(w), 2, 4)]
    ELSE [err |-> "", out |-> PutUint32(w)]

\* I2osp as the expanders call it: with lengths 1 and 2 and values below
\* 2^31, where the width of uint makes no difference.
I2osp(value, length) == I2ospWide(Wide(value), length, 64)

(***************************************************************************)
(* The hash object (hash.Hash): Reset, Write, Sum.                         *)
(***************************************************************************)
\* sums counts the digests the object has computed.
NewHash(id) == [id |-> id, acc |-> 0, n |-> 0, sums |-> 0]

\* Reset that leaves what was written in the hash object.
HashNoReset(h) == h

HashReset(h) == [h EXCEPT !.acc = 0, !.n = 0]

RECURSIVE Absorb(_, _, _, _)
Absorb(acc, p, lo, hi) ==
    IF lo > hi THEN acc
    ELSE IF lo = hi THEN (acc * 31 + p[lo] + 1) % 65521
    ELSE LET mid == (lo + hi) \div 2
             a == Absorb(acc, p, lo, mid)
         IN  IF a >= 0 THEN Absorb(a, p, mid + 1, hi) ELSE a

HashWrite(h, p) ==
    [h EXCEPT !.acc = Absorb(h.acc, p, 1, Len(p)), !.n = h.n + Len(p)]

\* h.Sum(nil): Size() bytes that depend on everything written since Reset.
HashSum(h) == [k \in 1..HashSize[h.id] |-> ((h.acc + h.n) * (k + 6) + k) % 256]

RECURSIVE WriteAll(_, _, _)
WriteAll(h, input, i) ==
    IF i > Len(input) THEN h ELSE WriteAll(HashWrite(h, input[i]), input, i + 1)

\* _hash(h, input...): reset, write every part, sum.
hash_(h, input) ==
    LET h2 == WriteAll(HashReset(h), input, 1)
    IN  [h |-> [h2 EXCEPT !.sums = h.sums + 1], sum |-> HashSum(h2)]

(***************************************************************************)
(* DST handling.                                                           *)
(***************************************************************************)
\* checkDST as it would be if the recommended minimum were enforced.
checkDSTRecommended(dst) ==
    IF Len(dst) < recommendedMinLength THEN "errZeroLenDST" ELSE ""

checkDST(dst) ==
    IF Len(dst) < recommendedMinLength
    THEN IF Len(dst) = minLength THEN "errZeroLenDST" ELSE ""
    ELSE ""

\* append(dst, I2OSP(uint(len(dst)), 1)[0])
DstPrime(dst) ==
    LET l == I2osp(Len(dst), 1)
    IN  IF l.err # "" THEN Panic(l.err)
        ELSE [err |-> "", out |-> Append(dst, l.out[1])]

\* VetDSTXMD with the threshold off by one: a DST of 255 bytes is hashed.
VetDSTXMDOffByOne(h, dst) ==
    IF Len(dst) < dstMaxLength
    THEN [err |-> "", h |-> h, dst |-> dst, hashes |-> 0]
    ELSE LET r == hash_(h, <<dstLongPrefix, dst>>)
         IN  [err |-> "", h |-> r.h, dst |-> r.sum, hashes |-> 1]

\* VetDSTXMD without the shortening: the DST is returned as it is.
VetDSTXMDKeepsLong(h, dst) == [err |-> "", h |-> h, dst |-> dst, hashes |-> 0]

VetDSTXMD(h, dst) ==
    IF Len(dst) <= dstMaxLength
    THEN [err |-> "", h |-> h, dst |-> dst, hashes |-> 0]
    ELSE IF HashSize[h.id] > dstMaxLength
    THEN [err |-> "errHashTooLong", h |-> h, dst |-> <<>>, hashes |-> 0]
    ELSE LET r == hash_(h, <<dstLongPrefix, dst>>)
         IN  [err |-> "", h |-> r.h, dst |-> r.sum, hashes |-> 1]

(***************************************************************************)
(* expand_message_xmd.                                                     *)
(* A result: err, the bytes returned (out), the backing array of the       *)
(* returned slice up to its capacity (buf), the number of digests computed *)
(* (hashes), the dst' that was absorbed (dstPrime) and, for an XOF, the     *)
(* output size the ExtendableHash is left with (size).                     *)
(*                                                                         *)
(* A function of the source is written as a chain of operators, each one   *)
(* taking the values computed so far as parameters.                        *)
(***************************************************************************)
XPanic(e, hashes) ==
    [err |-> e, out |-> <<>>, buf |-> <<>>, hashes |-> hashes, dstPrime |-> <<>>,
     size |-> 0]

xorSlices(bi, b0) == [i \in 1..Len(bi) |-> XorByte(bi[i], b0[i])]

\* bi = _hash(...); uniformBytes = append(uniformBytes, bi...)
xmdAppend(st, r) ==
    [h |-> r.h, bi |-> r.sum, uniformBytes |-> st.uniformBytes \o r.sum]

\* One iteration of the loop of xmd: st holds h, bi and uniformBytes.
xmdStep(st, b0, dstPrime, i) ==
    xmdAppend(st, hash_(st.h, <<xorSlices(st.bi, b0), <<i % 256>>, dstPrime>>))

\* The iterations lo..hi of the loop of xmd.
RECURSIVE xmdLoop(_, _, _, _, _)
xmdLoop(st, b0, dstPrime, lo, hi) ==
    IF lo > hi THEN st
    ELSE IF lo = hi THEN xmdStep(st, b0, dstPrime, lo)
    ELSE LET mid == (lo + hi) \div 2
             a == xmdLoop(st, b0, dstPrime, lo, mid)
         IN  IF Len(a.bi) >= 0 THEN xmdLoop(a, b0, dstPrime, mid + 1, hi) ELSE a

\* uniformBytes when the loop of xmd ends, before uniformBytes[0:length].
xmd(h, b0, b1, dstPrime, ell, length) ==
    xmdLoop([h |-> h, bi |-> b1, uniformBytes |-> b1], b0, dstPrime, 2, ell).uniformBytes

\* xmdReturn without the truncation: every block is returned whole.
xmdReturnWhole(uniformBytes, length, hashes, dstPrime) ==
    [err |-> "", out |-> uniformBytes, buf |-> uniformBytes,
     hashes |-> hashes, dstPrime |-> dstPrime, size |-> 0]

\* return uniformBytes[0:length]
xmdReturn(uniformBytes, length, hashes, dstPrime) ==
    [err |-> "", out |-> SubSeq(uniformBytes, 1, length), buf |-> uniformBytes,
     hashes |-> hashes, dstPrime |-> dstPrime, size |-> 0]

\* ExpandXMD from "if ell < 2": r1 is the digest b1 with the hash object.
ExpandXMDFromB1(b0, r1, dstPrime, ell, length, hashes) ==
    IF ell < 2
    THEN xmdReturn(r1.sum, length, hashes + 2, dstPrime)
    ELSE xmdReturn(xmd(r1.h, b0, r1.sum, dstPrime, ell, length), length,
                   hashes + 1 + ell, dstPrime)

\* ExpandXMD from "Hash to b1": r0 is the digest b0 with the hash object.
ExpandXMDFromB0(r0, dstPrime, ell, length, hashes) ==
    ExpandXMDFromB1(r0.sum, hash_(r0.h, <<r0.sum, <<1>>, dstPrime>>), dstPrime,
                    ell, length, hashes)

\* ExpandXMD from "Hash to b0": lib and dstPrime are I2OSP(length, 2) and
\* DstPrime(dst).
ExpandXMDFromPrime(id, input, v, length, ell, lib, dstPrime) ==
    IF lib.err # "" THEN XPanic(lib.err, v.hashes)
    ELSE IF dstPrime.err # "" THEN XPanic(dstPrime.err, v.hashes)
    ELSE ExpandXMDFromB0(
             hash_(v.h, <<Zeros(HashBlockSize[id]), input, lib.out, <<0>>, dstPrime.out>>),
             dstPrime.out, ell, length, v.hashes)

\* ExpandXMDVetted with the block count checked off by one: 255 blocks are
\* refused.
ExpandXMDVettedOffByOne(id, input, v, length) ==
    LET ell == CeilDiv(length, HashSize[id])
    IN  IF v.err # "" THEN XPanic(v.err, v.hashes)
        ELSE IF ell >= 255 \/ length > MaxUint16 \/ Len(v.dst) > MaxUint8
        THEN XPanic("errLengthTooLarge", v.hashes)
        ELSE ExpandXMDFromPrime(id, input, v, length, ell, I2osp(length, 2),
                                DstPrime(v.dst))

\* ExpandXMD after dst = VetDSTXMD(h, dst): the length checks.
ExpandXMDVetted(id, input, v, length) ==
    LET ell == CeilDiv(length, HashSize[id])
    IN  IF v.err # "" THEN XPanic(v.err, v.hashes)
        ELSE IF ell > 255 \/ length > MaxUint16 \/ Len(v.dst) > MaxUint8
        THEN XPanic("errLengthTooLarge", v.hashes)
        ELSE ExpandXMDFromPrime(id, input, v, length, ell, I2osp(length, 2),
                                DstPrime(v.dst))

\* internal.ExpandXMD; id.New() panics for a hash that is not available.
internalExpandXMD(id, input, dst, length) ==
    IF id \notin HashIds THEN XPanic("errHashUnavailable", 0)
    ELSE ExpandXMDVetted(id, input, VetDSTXMD(NewHash(id), dst), length)

ExpandXMD(id, input, dst, length) ==
    IF checkDST(dst) # "" THEN XPanic(checkDST(dst), 0)
    ELSE internalExpandXMD(id, input, dst, length)

(***************************************************************************)
(* xmd with its memory.  m holds the hash object h and the arrays the      *)
(* slices of xmd refer to: b0, b1, bi and uniformBytes.  bi is first a     *)
(* copy of b1 and then, in each iteration, the array h.Sum(nil) allocates; *)
(* append copies the bytes of bi into the array of uniformBytes.           *)
(***************************************************************************)
\* xorSlices writing into b0: b0[i] ^= bi[i].
xorSlicesIntoB0(m) ==
    [m EXCEPT !.b0 = [k \in 1..Len(m.b0) |-> XorByte(m.b0[k], m.bi[k])],
              !.bi = [k \in 1..Len(m.b0) |-> XorByte(m.b0[k], m.bi[k])]]

\* xorSlices(bi, b0): bi[i] ^= b0[i] in the array of bi, which is returned.
xorSlicesInPlace(m) ==
    [m EXCEPT !.bi = [k \in 1..Len(m.bi) |-> XorByte(m.bi[k], m.b0[k])]]

\* xmd up to the loop: uniformBytes = append(make([]byte, 0, length), b1...);
\* bi = make([]byte, len(b1)); copy(bi, b1).
xmdEnter(h, b0, b1, dstPrime, ell, length) ==
    [h |-> h, b0 |-> b0, b1 |-> b1, bi |-> b1, uniformBytes |-> b1,
     dstPrime |-> dstPrime, ell |-> ell, length |-> length, i |-> 2]

\* bi = _hash(h, xor, []byte{byte(i)}, dstPrime);
\* uniformBytes = append(uniformBytes, bi...); i++
xmdIterHashed(m, r) ==
    [m EXCEPT !.h = r.h, !.bi = r.sum, !.uniformBytes = m.uniformBytes \o r.sum,
              !.i = m.i + 1]

\* The iteration from _hash on: the array of bi holds the XOR.
xmdIterXored(m) ==
    xmdIterHashed(m, hash_(m.h, <<m.bi, <<m.i % 256>>, m.dstPrime>>))

\* One iteration of the loop of xmd.
xmdIterate(m) == xmdIterXored(xorSlicesInPlace(m))

\* The loop of xmd running once more: i <= ell + 1.
xmdLoopOneMore(m) == m.i <= m.ell + 1

\* i <= ell
xmdLoopContinues(m) == m.i <= m.ell

\* ExpandXMD up to "if ell < 2", for a vetted DST v of an accepted call; the
\* memory is that of xmd, which is called if ell >= 2.
xmdFromB1(b0, r1, dstPrime, ell, length) ==
    xmdEnter(r1.h, b0, r1.sum, dstPrime, ell, length)

xmdFromB0(r0, dstPrime, ell, length) ==
    xmdFromB1(r0.sum, hash_(r0.h, <<r0.sum, <<1>>, dstPrime>>), dstPrime, ell,
              length)

xmdFromVetted(id, input, v, length) ==
    xmdFromB0(hash_(v.h, <<Zeros(HashBlockSize[id]), input, I2osp(length, 2).out,
                          <<0>>, DstPrime(v.dst).out>>),
              DstPrime(v.dst).out, CeilDiv(length, HashSize[id]), length)

xmdFromCall(id, input, dst, length) ==
    xmdFromVetted(id, input, VetDSTXMD(NewHash(id), dst), length)

(***************************************************************************)
(* expand_message_xof.  The ExtendableHash carries its output size.        *)
(***************************************************************************)
NewXof(id) == [id |-> id, size |-> XofSize[id]]

\* SetOutputSize leaving the output size as it was.
SetOutputSizeKept(x, size) == x

SetOutputSize(x, size) == [x EXCEPT !.size = size]

XofSqueeze(h, size) ==
    [k \in 1..size |-> ((h.acc + h.n) * ((k % 251) + 6) + k) % 256]

\* x.Hash(input...): absorb every part, squeeze x.size bytes.
XofHash(x, input) ==
    XofSqueeze(WriteAll([id |-> x.id, acc |-> 0, n |-> 0], input, 1), x.size)

checkXOFSecurityLevel(x) ==
    LET size == CeilDiv(2 * XofSecurityLevel[x.id], 8)
    IN  IF size > XofSize[x.id] * 8 THEN [err |-> "errXOFHighOutput", size |-> 0]
        ELSE [err |-> "", size |-> size]

\* VetXofDST from x.SetOutputSize(size)
VetXofDSTSized(x, dst, s) ==
    IF s.err # "" THEN [err |-> s.err, x |-> x, dst |-> <<>>, hashes |-> 0]
    ELSE [err |-> "", x |-> SetOutputSize(x, s.size),
          dst |-> XofHash(SetOutputSize(x, s.size), <<dstLongPrefix, dst>>),
          hashes |-> 1]

VetXofDST(x, dst) ==
    IF Len(dst) <= dstMaxLength
    THEN [err |-> "", x |-> x, dst |-> dst, hashes |-> 0]
    ELSE VetXofDSTSized(x, dst, checkXOFSecurityLevel(x))

\* x.Hash(size, input...) of src/internal/xof.go: the output size is an
\* argument of the call.
XofHashSized(x, size, input) == XofHash(SetOutputSize(x, size), input)

\* VetXofDST of src/internal/xof.go.
VetXofDSTHashSize(x, dst) ==
    IF Len(dst) <= dstMaxLength
    THEN [err |-> "", x |-> x, dst |-> dst, hashes |-> 0]
    ELSE IF CeilDiv(2 * XofSecurityLevel[x.id], 8) > MaxUint8
    THEN [err |-> "errXOFHighOutput", x |-> x, dst |-> <<>>, hashes |-> 0]
    ELSE [err |-> "", x |-> x,
          dst |-> XofHashSized(x, CeilDiv(2 * XofSecurityLevel[x.id], 8),
                               <<dstLongPrefix, dst>>),
          hashes |-> 1]

\* return ext.Hash(input, len2o, dst, dstLen2o)
xofReturn(o, x, hashes, dstPrime) ==
    [err |-> "", out |-> o, buf |-> o, hashes |-> hashes, dstPrime |-> dstPrime,
     size |-> x.size]

\* ExpandXOF from ext.SetOutputSize(int(length))
ExpandXOFFromPrime(v, input, length, len2o, dstLen2o) ==
    IF len2o.err # "" THEN XPanic(len2o.err, v.hashes)
    ELSE IF dstLen2o.err # "" THEN XPanic(dstLen2o.err, v.hashes)
    ELSE xofReturn(XofHash(SetOutputSize(v.x, length),
                           <<input, len2o.out, v.dst, dstLen2o.out>>),
                   SetOutputSize(v.x, length), v.hashes + 1, v.dst \o dstLen2o.out)

\* ExpandXOF after dst = VetXofDST(ext, dst)
ExpandXOFVetted(v, input, length) ==
    IF v.err # "" THEN XPanic(v.err, v.hashes)
    ELSE ExpandXOFFromPrime(v, input, length, I2osp(length, 2), I2osp(Len(v.dst), 1))

internalExpandXOF(ext, input, dst, length) ==
    IF length > MaxUint16 THEN XPanic("errLengthTooLarge", 0)
    ELSE ExpandXOFVetted(VetXofDST(ext, dst), input, length)

ExpandXOF(ext, input, dst, length) ==
    IF checkDST(dst) # "" THEN XPanic(checkDST(dst), 0)
    ELSE internalExpandXOF(ext, input, dst, length)

(***************************************************************************)
(* hash_to_field.                                                          *)
(***************************************************************************)
\* reduce with the upper end of the range included.
reduceInclusive(input, modulo) ==
    IF modulo = 0 THEN [err |-> "errDivisionByZero", val |-> 0]
    ELSE [err |-> "", val |-> OS2IPModRange(0, input, 1, Len(input), Abs(modulo) + 1)]

\* new(big.Int).SetBytes(input) followed by i.Mod(i, modulo): the Euclidean
\* modulus, in [0, |modulo|); Mod panics on a zero modulus.  The value is
\* reduced while it is accumulated so that it stays within 32-bit integers.
reduce(input, modulo) ==
    IF modulo = 0 THEN [err |-> "errDivisionByZero", val |-> 0]
    ELSE [err |-> "", val |-> OS2IPModRange(0, input, 1, Len(input), Abs(modulo))]

\* uniform[offset:offset+securityLength] of the i-th iteration (i from 0) is
\* within the capacity of the slice.
SliceInBounds(uniform, i, securityLength) ==
    i * securityLength + securityLength <= Len(uniform.buf)

reduceUniform(uniform, count, securityLength, modulo) ==
    IF count >= 1 /\ SliceInBounds(uniform, 0, securityLength) /\ modulo = 0
    THEN [err |-> "errDivisionByZero", out |-> <<>>]
    ELSE IF \E i \in 0..(count - 1) : ~SliceInBounds(uniform, i, securityLength)
    THEN [err |-> "errSliceBounds", out |-> <<>>]
    ELSE [err |-> "",
          out |-> [j \in 1..count |->
                     reduce(SubSeq(uniform.buf, (j - 1) * securityLength + 1,
                                   j * securityLength), modulo).val]]

\* What HashToField returns: the integers of r, or the panic of the expander.
FieldResult(uniform, r) == [err |-> r.err, out |-> r.out, uniform |-> uniform]

\* HashToFieldXMD / HashToFieldXOF from "return reduceUniform(...)".
HashToFieldFromUniform(uniform, count, securityLength, modulo) ==
    IF uniform.err # "" THEN FieldResult(uniform, [err |-> uniform.err, out |-> <<>>])
    ELSE FieldResult(uniform, reduceUniform(uniform, count, securityLength, modulo))

HashToFieldXMD(id, input, dst, count, ext, securityLength, modulo) ==
    HashToFieldFromUniform(ExpandXMD(id, input, dst, count * ext * securityLength),
                           count, securityLength, modulo)

HashToFieldXOF(id, input, dst, count, ext, securityLength, modulo) ==
    HashToFieldFromUniform(ExpandXOF(id, input, dst, count * ext * securityLength),
                           count, securityLength, modulo)

(***************************************************************************)
(* The inputs of the model.                                                *)
(*                                                                         *)
(* The output size of an ExtendableHash is set by the external             *)
(* SetOutputSize; the repository's tests exercise the XOF expander with    *)
(* lengths of at least minXofLength bytes, and so does the model.          *)
(***************************************************************************)
Msg(n) == [i \in 1..n |-> 96 + i]
Msgs == {Msg(n) : n \in 0..MaxMsgLen}

Dst(n) == [i \in 1..n |-> 65 + (i % 26)]
DstLens == {0, 1, recommendedMinLength - 1, recommendedMinLength,
            dstMaxLength, dstMaxLength + 1, dstMaxLength + 45}
Dsts == {Dst(n) : n \in DstLens}

XmdLengths(id) ==
    {0, 1, HashSize[id], HashSize[id] + 1, 2 * HashSize[id] + 1,
     255 * HashSize[id], 255 * HashSize[id] + 1, MaxUint16, MaxUint16 + 1}

minXofLength == 32

XofLengths == {minXofLength, 300, MaxUint16, MaxUint16 + 1}

Moduli == {-7, 0, 1, 7, 251, 65521}

\* Per-element lengths: none, one byte, and the lengths of the NIST suites.
SecLengths == {0, 1, 16, 48}

ExpandCall(op, id, input, dst, length) ==
    [op |-> op, id |-> id, input |-> input, dst |-> dst, length |-> length,
     count |-> 0, ext |-> 0, securityLength |-> 0, modulo |-> 0]

FieldCall(op, id, input, dst, count, ext, securityLength, modulo) ==
    [op |-> op, id |-> id, input |-> input, dst |-> dst, length |-> 0,
     count |-> count, ext |-> ext, securityLength |-> securityLength,
     modulo |-> modulo]

ExpandXMDCalls ==
    UNION {{ExpandCall("ExpandXMD", id, m, d, l) :
               m \in Msgs, d \in Dsts, l \in XmdLengths(id)} : id \in HashIds}

ExpandXOFCalls ==
    {ExpandCall("ExpandXOF", id, m, d, l) :
        id \in XofIds, m \in Msgs, d \in Dsts, l \in XofLengths}

FieldDsts == {Dst(0), Dst(1), Dst(recommendedMinLength), Dst(dstMaxLength + 1)}

HashToFieldXMDCalls ==
    {FieldCall("HashToFieldXMD", id, Msg(MaxMsgLen), d, c, e, l, m) :
        id \in HashIds, d \in FieldDsts, c \in 0..MaxCount, e \in 0..MaxExt,
        l \in SecLengths, m \in Moduli}

HashToFieldXOFCalls ==
    {f \in {FieldCall("HashToFieldXOF", id, Msg(MaxMsgLen), d, c, e, l, m) :
                id \in XofIds, d \in FieldDsts, c \in 0..MaxCount, e \in 0..MaxExt,
                l \in SecLengths, m \in Moduli} :
        f.count * f.ext * f.securityLength >= minXofLength}

Calls == ExpandXMDCalls \cup ExpandXOFCalls \cup HashToFieldXMDCalls
            \cup HashToFieldXOFCalls

(***************************************************************************)
(* The NIST curves.  Two revisions of the code are in the repository:      *)
(* package nist ("nist"), where the three curves share one file, and the   *)
(* packages nist/p256, nist/p384, nist/p521 over nist/internal ("split").  *)
(*                                                                         *)
(* The group orders, field primes and B coefficients are integers of 256   *)
(* to 521 bits; each is represented by a distinct number below 2^15, which *)
(* keeps what matters here: which curve's value a field of a descriptor    *)
(* holds, and reduction modulo it.  As for the curves of the code, each    *)
(* field prime p is 3 modulo 4, Z is not a square modulo p, the curve      *)
(* y^2 = x^3 - 3x + B is not singular and g(B / (Z * A)) is a square.      *)
(* Hash, A, Z and the security length are the code's.                      *)
(***************************************************************************)
Curves == {"P256", "P384", "P521"}
Ops == {"HashToCurve", "EncodeToCurve", "HashToScalar"}
Revs == {"nist", "split"}

NumThreads == 2
MaxCalls == 3
Threads == 1..NumThreads

nistWa == -3

\* The values each initialiser writes.
initP256 ==
    [groupOrder |-> 32749, prime |-> 32719, b |-> 32711, hash |-> "SHA256",
     z |-> -10, secLength |-> 48]
initP384 ==
    [groupOrder |-> 32717, prime |-> 32687, b |-> 32663, hash |-> "SHA384",
     z |-> -12, secLength |-> 72]
initP521 ==
    [groupOrder |-> 32653, prime |-> 32707, b |-> 32701, hash |-> "SHA512",
     z |-> -4, secLength |-> 98]

initOf == [P256 |-> initP256, P384 |-> initP384, P521 |-> initP521]

\* The zero value of nistCurve: the package-level p256, p384, p521 before
\* their initialiser runs.  crypto.Hash(0) is "none".
nistCurve ==
    [groupOrder |-> 0, field |-> 0, b |-> 0, hash |-> "none", secLength |-> 0,
     z |-> 0]

\* The descriptor whose groupOrder the initialiser of curve c assigns.
nistGroupOrderTarget(c) == "P256"
splitGroupOrderTarget(c) == c
GroupOrderTarget(r, c) ==
    IF r = "nist" THEN nistGroupOrderTarget(c) ELSE splitGroupOrderTarget(c)

\* Whether the public operation starts with initOnce.Do(init).
nistGuarded(op, c) == ~(op = "HashToScalar" /\ c = "P521")
splitGuarded(op, c) == TRUE
Guarded(r, op, c) == IF r = "nist" THEN nistGuarded(op, c) ELSE splitGuarded(op, c)

\* package nist
setCurveParams(d, prime, b) == [d EXCEPT !.field = prime, !.b = b]
setMapping(d, hash, z, secLength) ==
    [d EXCEPT !.hash = hash, !.secLength = secLength, !.z = z]

\* package nist/internal
SetCurveParams(d, prime) == [d EXCEPT !.field = prime]
SetMapping(d, hash, b, z, secLength) ==
    [d EXCEPT !.hash = hash, !.secLength = secLength, !.b = b, !.z = z]

\* The point map2curve returns is determined by the arguments it hands to
\* MapToCurveSSWU, which stand for it here.
map2curve(d, fe) == [u |-> fe, a |-> nistWa, b |-> d.b, z |-> d.z, p |-> d.field]

\* What a public operation returns from the field elements u (a panic of
\* hash_to_field propagates): the scalar u[0], the point of u[0], or the
\* points of u[0] and u[1] that are added.
ScalarOf(u) ==
    IF u.err # "" THEN [err |-> u.err, val |-> <<>>]
    ELSE [err |-> "", val |-> <<u.out[1]>>]

PointOf(d, u) ==
    IF u.err # "" THEN [err |-> u.err, val |-> <<>>]
    ELSE [err |-> "", val |-> [j \in 1..Len(u.out) |-> map2curve(d, u.out[j])]]

HashToScalar(d, input, dst) ==
    ScalarOf(HashToFieldXMD(d.hash, input, dst, 1, 1, d.secLength, d.groupOrder))

encodeXMD(d, input, dst) ==
    PointOf(d, HashToFieldXMD(d.hash, input, dst, 1, 1, d.secLength, d.field))

hashXMD(d, input, dst) ==
    PointOf(d, HashToFieldXMD(d.hash, input, dst, 2, 1, d.secLength, d.field))

\* The part of a public operation that follows initOnce.Do.
OpBody(op, d, input, dst) ==
    CASE op = "HashToScalar" -> HashToScalar(d, input, dst)
      [] op = "EncodeToCurve" -> encodeXMD(d, input, dst)
      [] OTHER -> hashXMD(d, input, dst)

\* c.field.ByteLen() of each curve's prime.
ByteLen == [P256 |-> 32, P384 |-> 48, P521 |-> 66]

\* v.FillBytes(buf) on a buffer of n bytes: big-endian, zero-extended.  The
\* coordinates of the model are below 2^24.
FillBytes(v, n) ==
    [i \in 1..n |-> IF n - i >= 3 THEN 0 ELSE (v \div (256 ^ (n - i))) % 256]

\* [65]byte{0x04}, [97]byte{0x04}, [133]byte{0x04}
NewBuffer(c) == <<4>> \o Zeros(2 * ByteLen[c])

\* buf with the bytes from index from (0-based) on replaced by bytes.
WriteAt(buf, from, bytes) ==
    [i \in 1..Len(buf) |->
        IF i > from /\ i <= from + Len(bytes) THEN bytes[i - from] ELSE buf[i]]

\* The uncompressed encoding 0x04 || X || Y of the point (x, y) of curve c.
Uncompressed(c, x, y) ==
    <<4>> \o FillBytes(x, ByteLen[c]) \o FillBytes(y, ByteLen[c])

\* The coordinates affineToPoint is called with.
AffineCoords == {<<1, 2>>, <<258, 32700>>, <<32700, 1>>}

\* The message and DST of the calls on the curves: "input data" and
\* "domain separation tag".
testHashToGroupInput == <<105, 110, 112, 117, 116, 32, 100, 97, 116, 97>>
testHashToGroupDST ==
    <<100, 111, 109, 97, 105, 110, 32, 115, 101, 112, 97, 114, 97, 116,
      105, 111, 110, 32, 116, 97, 103>>

(***************************************************************************)
(* The field facade (package field) over math/big.  A Field is made of its *)
(* order and of the exponents NewField precomputes.  big.Int.Mod is the    *)
(* Euclidean modulus and big.Int.Exp with a modulus returns a value in     *)
(* [0, m), as % does for a positive right operand.                         *)
(***************************************************************************)
NewField(prime) ==
    [order |-> prime, pMinus1div2 |-> (prime - 1) \div 2, pMinus2 |-> prime - 2,
     exp |-> (prime + 1) \div 4]

One == 1

\* One round of square-and-multiply on the result h for the upper bits.
SquareAndMultiply(h, x, odd, m) ==
    IF odd THEN (((h * h) % m) * x) % m ELSE (h * h) % m

\* res.Exp(x, n, m) for n >= 0 and m > 0
RECURSIVE BigExp(_, _, _)
BigExp(x, n, m) ==
    IF n = 0 THEN 1 % m
    ELSE SquareAndMultiply(BigExp(x, n \div 2, m), x % m, n % 2 = 1, m)

IsZero(e) == e = 0
Exponent(f, x, n) == BigExp(x, n, f.order)
Inv(f, x) == Exponent(f, x, f.pMinus2)
LegendreSymbol(f, a) == Exponent(f, a, f.pMinus1div2)
Mod(f, x) == x % f.order
Neg(f, x) == Mod(f, -x)
Add(f, x, y) == Mod(f, x + y)
Sub(f, x, y) == Mod(f, x - y)
Mul(f, x, y) == Mod(f, x * y)
Square(f, x) == Mod(f, x * x)
AreEqual(f, f1, f2) == IsZero(Sub(f, f1, f2))
IsSquare(f, e) == AreEqual(f, LegendreSymbol(f, e), One)

\* CondMov choosing x when b is true.
CondMovSwapped(x, y, b) == IF b THEN x ELSE y

\* CondMov: res.Set(y) if b, res.Set(x) otherwise; the value is copied as
\* it is.
CondMov(x, y, b) == IF b THEN y ELSE x

\* x.Bit(0)
Sgn0(x) == x % 2

\* sqrt3mod4 raising to (p - 1) / 2, the exponent of the Legendre symbol.
sqrt3mod4Legendre(f, e) == Exponent(f, e, f.pMinus1div2)

sqrt3mod4(f, e) == Exponent(f, e, f.exp)
SquareRoot(f, e) == sqrt3mod4(f, e)

\* What SqrtRatio returns, and the values it wrote to res on the way: the
\* inverse of v, its product with e, that product adjusted, and the root.
SqrtRatioOut(f, inv, prod, adj, square) ==
    [square |-> square, res |-> SquareRoot(f, adj),
     written |-> {inv, prod, adj, SquareRoot(f, adj)}]

\* SqrtRatio that does not multiply a non-square by zMapConstant.
SqrtRatioKeep(f, zMapConstant, inv, prod, square) ==
    SqrtRatioOut(f, inv, prod, prod, square)

\* SqrtRatio from "square := f.IsSquare(res)" on.
SqrtRatioAdjust(f, zMapConstant, inv, prod, square) ==
    SqrtRatioOut(f, inv, prod,
                 IF square THEN prod ELSE Mul(f, prod, zMapConstant), square)

SqrtRatioIsSquare(f, zMapConstant, inv, prod) ==
    SqrtRatioAdjust(f, zMapConstant, inv, prod, IsSquare(f, prod))

SqrtRatioMul(f, zMapConstant, e, inv) ==
    SqrtRatioIsSquare(f, zMapConstant, inv, Mul(f, inv, e))

SqrtRatio(f, zMapConstant, e, v) == SqrtRatioMul(f, zMapConstant, e, Inv(f, v))

(***************************************************************************)
(* MapToCurveSSWU, statement by statement.  r holds the arguments, the     *)
(* local variables tv1..tv6, _y1, x, y (zero big.Int at first),            *)
(* isGx1Square and e1, the number of statements done (at) and the values   *)
(* the facade wrote in the last statement (written).                       *)
(***************************************************************************)
SswuSteps == 26

SswuLocals(at, c, f, a, b, z, fe) ==
    [at |-> at, curve |-> c, fp |-> f, a |-> a, b |-> b, z |-> z, fe |-> fe,
     tv1 |-> 0, tv2 |-> 0, tv3 |-> 0, tv4 |-> 0, tv5 |-> 0, tv6 |-> 0, y1 |-> 0,
     x |-> 0, y |-> 0, isGx1Square |-> FALSE, e1 |-> FALSE, written |-> {}]

\* A statement that writes val to the variable reg, after writing temps to
\* temporaries.
Wrote(r, reg, val, temps) ==
    [r EXCEPT ![reg] = val, !.at = r.at + 1, !.written = {val} \cup temps]

\* 18: isGx1Square, y1 = sqrt_ratio(tv2, tv6)
WroteSqrtRatio(r, sr) ==
    [r EXCEPT !.y1 = sr.res, !.isGx1Square = sr.square, !.at = r.at + 1,
              !.written = sr.written]

\* 23: e1 = sgn0(u) == sgn0(y)
WroteE1(r, e1) == [r EXCEPT !.e1 = e1, !.at = r.at + 1, !.written = {}]

\* The statement of MapToCurveSSWU that follows the r.at statements done.
SswuStatement(r) ==
    CASE r.at = 0 -> Wrote(r, "tv1", Square(r.fp, r.fe), {})
      [] r.at = 1 -> Wrote(r, "tv1", Mul(r.fp, r.z, r.tv1), {})
      [] r.at = 2 -> Wrote(r, "tv2", Square(r.fp, r.tv1), {})
      [] r.at = 3 -> Wrote(r, "tv2", Add(r.fp, r.tv2, r.tv1), {})
      [] r.at = 4 -> Wrote(r, "tv3", Add(r.fp, r.tv2, One), {})
      [] r.at = 5 -> Wrote(r, "tv3", Mul(r.fp, r.b, r.tv3), {})
      [] r.at = 6 -> Wrote(r, "tv4",
                           CondMov(r.z, Neg(r.fp, r.tv2), ~IsZero(r.tv2)),
                           {Neg(r.fp, r.tv2)})
      [] r.at = 7 -> Wrote(r, "tv4", Mul(r.fp, r.a, r.tv4), {})
      [] r.at = 8 -> Wrote(r, "tv2", Square(r.fp, r.tv3), {})
      [] r.at = 9 -> Wrote(r, "tv6", Square(r.fp, r.tv4), {})
      [] r.at = 10 -> Wrote(r, "tv5", Mul(r.fp, r.a, r.tv6), {})
      [] r.at = 11 -> Wrote(r, "tv2", Add(r.fp, r.tv2, r.tv5), {})
      [] r.at = 12 -> Wrote(r, "tv2", Mul(r.fp, r.tv2, r.tv3), {})
      [] r.at = 13 -> Wrote(r, "tv6", Mul(r.fp, r.tv6, r.tv4), {})
      [] r.at = 14 -> Wrote(r, "tv5", Mul(r.fp, r.b, r.tv6), {})
      [] r.at = 15 -> Wrote(r, "tv2", Add(r.fp, r.tv2, r.tv5), {})
      [] r.at = 16 -> Wrote(r, "x", Mul(r.fp, r.tv1, r.tv3), {})
      [] r.at = 17 -> WroteSqrtRatio(r, SqrtRatio(r.fp, r.z, r.tv2, r.tv6))
      [] r.at = 18 -> Wrote(r, "y", Mul(r.fp, r.tv1, r.fe), {})
      [] r.at = 19 -> Wrote(r, "y", Mul(r.fp, r.y, r.y1), {})
      [] r.at = 20 -> Wrote(r, "x", CondMov(r.x, r.tv3, r.isGx1Square), {})
      [] r.at = 21 -> Wrote(r, "y", CondMov(r.y, r.y1, r.isGx1Square), {})
      [] r.at = 22 -> WroteE1(r, Sgn0(r.fe) = Sgn0(r.y))
      [] r.at = 23 -> Wrote(r, "y", CondMov(Neg(r.fp, r.y), r.y, r.e1),
                            {Neg(r.fp, r.y)})
      [] r.at = 24 -> Wrote(r, "tv4", Inv(r.fp, r.tv4), {})
      [] OTHER -> Wrote(r, "x", Mul(r.fp, r.x, r.tv4), {})

(***************************************************************************)
(* The state.                                                              *)
(*   pc, call, ret : one call of an expander or of hash_to_field, and what *)
(*                   it returned (the library keeps nothing between calls) *)
(*   rev           : the revision of the NIST code                         *)
(*   once          : each curve's sync.Once: "new", "running", "done"      *)
(*   desc          : the package-level descriptors p256, p384, p521        *)
(*   tpc           : where each thread is in its public operation          *)
(*   calls         : the number of operations called so far                *)
(*   initRuns      : how many times each initialiser was entered           *)
(*   writes        : the assignments made to descriptors: by the           *)
(*                   initialiser of which curve, to which descriptor, and  *)
(*                   the state of that descriptor's Once at the time       *)
(*   hist          : the results the operations returned                   *)
(*   decompressed  : the package-level buffers decompressed256/384/521 of  *)
(*                   package nist                                          *)
(*   aff           : each thread's call of affineToPoint: where it is, its *)
(*                   arguments, its local buffer and what it handed to     *)
(*                   SetBytes                                              *)
(*   ext           : the ExtendableHash that concurrent calls of ExpandXOF *)
(*                   share                                                 *)
(*   xo            : each thread's call of ExpandXOF on ext                *)
(*   io            : one call of I2osp: the width of uint, the arguments   *)
(*                   and what it returned                                  *)
(*   grp           : one group, one (input, dst) and what its uniform and  *)
(*                   its non-uniform operation returned for them           *)
(*   pf            : one call of a function of the curve packages: its     *)
(*                   name, its arguments and what it returned              *)
(*   xm            : one call of ExpandXMD that reaches xmd: its           *)
(*                   arguments, the memory of xmd, and what b0, bi and     *)
(*                   uniformBytes held when the last iteration began       *)
(*   sw            : one call of MapToCurveSSWU: its arguments, its local  *)
(*                   variables and how far it is                           *)
(***************************************************************************)
VARIABLES pc, call, ret, rev, once, desc, tpc, calls, initRuns, writes, hist,
          decompressed, aff, ext, xo, io, grp, sw, pf, xm

expVars == <<pc, call, ret>>
nistVars == <<rev, once, desc, tpc, calls, initRuns, writes, hist>>
affVars == <<decompressed, aff>>
xofVars == <<ext, xo>>
vars == <<pc, call, ret, rev, once, desc, tpc, calls, initRuns, writes, hist,
          decompressed, aff, ext, xo, io, grp, sw, pf, xm>>

\* The variables that the steps of one part of the library leave alone.
outsideExp == <<nistVars, affVars, xofVars, io, grp, sw, pf, xm>>
outsideNist == <<expVars, affVars, xofVars, io, grp, sw, pf, xm>>
outsideAff == <<expVars, nistVars, xofVars, io, grp, sw, pf, xm>>
outsideXof == <<expVars, nistVars, affVars, io, grp, sw, pf, xm>>
outsideI2osp == <<expVars, nistVars, affVars, xofVars, grp, sw, pf, xm>>
outsideGroups == <<expVars, nistVars, affVars, xofVars, io, sw, pf, xm>>
outsideSswu == <<expVars, nistVars, affVars, xofVars, io, grp, pf, xm>>
outsidePure == <<expVars, nistVars, affVars, xofVars, io, grp, sw, xm>>
outsideXmd == <<expVars, nistVars, affVars, xofVars, io, grp, sw, pf>>

NoExpansion == XPanic("", 0)
NoRet == [err |-> "", ints |-> <<>>, exp |-> NoExpansion]

RetOfExpansion(e) == [err |-> e.err, ints |-> <<>>, exp |-> e]
RetOfField(r) == [err |-> r.err, ints |-> r.out, exp |-> r.uniform]

Idle == [at |-> "idle", op |-> "", curve |-> ""]

NistStart(r) ==
    /\ rev = r
    /\ once = [c \in Curves |-> "new"]
    /\ desc = [c \in Curves |-> nistCurve]
    /\ tpc = [t \in Threads |-> Idle]
    /\ calls = 0
    /\ initRuns = [c \in Curves |-> 0]
    /\ writes = {}
    /\ hist = {}

\* No call of an expander or of hash_to_field.
ExpStart ==
    /\ pc = "off"
    /\ call = ExpandCall("", "", <<>>, <<>>, 0)
    /\ ret = NoRet

\* The buffers at program start, and no call of affineToPoint.
NoAffine ==
    [at |-> "idle", curve |-> "P256", x |-> 0, y |-> 0, local |-> <<>>,
     handed |-> <<>>]

AffStart ==
    /\ decompressed = [c \in Curves |-> NewBuffer(c)]
    /\ aff = [t \in Threads |-> NoAffine]

\* No call of ExpandXOF on a shared ExtendableHash.
NoXofCall ==
    [at |-> "idle", input |-> <<>>, dst |-> <<>>, length |-> 0, vetted |-> <<>>,
     err |-> "", out |-> <<>>]

XofStart(id) ==
    /\ ext = NewXof(id)
    /\ xo = [t \in Threads |-> NoXofCall]

\* No call of I2osp.
I2ospCall(at, bits, w, length) ==
    [at |-> at, bits |-> bits, value |-> w, length |-> length,
     ret |-> Panic("")]

I2ospStart == io = I2ospCall("off", 64, Wide(0), 0)

\* No call of a function of the curve packages.
PureCall(at, fn, args) == [at |-> at, fn |-> fn, args |-> args, ret |-> <<>>]

PureStart == pf = PureCall("off", "none", <<>>)

\* No call of xmd.
XmdCall(at, id, input, dst, length) ==
    [at |-> at, id |-> id, input |-> input, dst |-> dst, length |-> length,
     m |-> xmdEnter(NewHash(id), <<>>, <<>>, <<>>, 0, 0),
     b0At |-> <<>>, prevBi |-> <<>>, uniformBefore |-> <<>>, out |-> <<>>]

XmdStart == xm = XmdCall("off", "SHA256", <<>>, <<>>, 0)

\* No call of MapToCurveSSWU.
SswuStart == sw = SswuLocals(-1, "P256", NewField(1), 0, 0, 0, 0)

\* No operation of a group called.
NoPoint == [err |-> "", val |-> <<>>]

GroupCall(at, g, input, dst) ==
    [at |-> at, group |-> g, input |-> input, dst |-> dst,
     ro |-> NoPoint, roDone |-> FALSE, nu |-> NoPoint, nuDone |-> FALSE]

GroupStart == grp = GroupCall("off", "P256", <<>>, <<>>)

(***************************************************************************)
(* The expanders and hash_to_field: one call of a public operation.        *)
(***************************************************************************)
Init ==
    /\ pc = "call"
    /\ call \in Calls
    /\ ret = NoRet
    /\ NistStart("split")
    /\ AffStart
    /\ XofStart("SHAKE128")
    /\ I2ospStart
    /\ GroupStart
    /\ SswuStart
    /\ PureStart
    /\ XmdStart

DoExpandXMD ==
    /\ pc = "call"
    /\ call.op = "ExpandXMD"
    /\ ret' = RetOfExpansion(ExpandXMD(call.id, call.input, call.dst, call.length))
    /\ pc' = "done"
    /\ UNCHANGED <<call, outsideExp>>

DoExpandXOF ==
    /\ pc = "call"
    /\ call.op = "ExpandXOF"
    /\ ret' = RetOfExpansion(ExpandXOF(NewXof(call.id), call.input, call.dst,
                                        call.length))
    /\ pc' = "done"
    /\ UNCHANGED <<call, outsideExp>>

DoHashToFieldXMD ==
    /\ pc = "call"
    /\ call.op = "HashToFieldXMD"
    /\ ret' = RetOfField(HashToFieldXMD(call.id, call.input, call.dst, call.count,
                                        call.ext, call.securityLength, call.modulo))
    /\ pc' = "done"
    /\ UNCHANGED <<call, outsideExp>>

DoHashToFieldXOF ==
    /\ pc = "call"
    /\ call.op = "HashToFieldXOF"
    /\ ret' = RetOfField(HashToFieldXOF(NewXof(call.id), call.input, call.dst,
                                        call.count, call.ext, call.securityLength,
                                        call.modulo))
    /\ pc' = "done"
    /\ UNCHANGED <<call, outsideExp>>

Next == DoExpandXMD \/ DoExpandXOF \/ DoHashToFieldXMD \/ DoHashToFieldXOF

Spec == Init /\ [][Next]_vars

(***************************************************************************)
(* The NIST curves: threads call the public operations of the three        *)
(* curves.  A step of a thread is one statement of the operation or of the *)
(* initialiser it runs.                                                    *)
(***************************************************************************)
InitNist ==
    /\ pc = "nist"
    /\ call = ExpandCall("", "", <<>>, <<>>, 0)
    /\ ret = NoRet
    /\ \E r \in Revs : NistStart(r)
    /\ AffStart
    /\ XofStart("SHAKE128")
    /\ I2ospStart
    /\ GroupStart
    /\ SswuStart
    /\ PureStart
    /\ XmdStart

Goto(t, at) == tpc' = [tpc EXCEPT ![t].at = at]

\* A thread calls a public operation of a curve.
CallOp(t) ==
    /\ tpc[t].at = "idle"
    /\ calls < MaxCalls
    /\ calls' = calls + 1
    /\ \E op \in Ops, c \in Curves :
          tpc' = [tpc EXCEPT ![t] =
                    [at |-> IF Guarded(rev, op, c) THEN "once" ELSE "body",
                     op |-> op, curve |-> c]]
    /\ UNCHANGED <<outsideNist, rev, once, desc, initRuns, writes, hist>>

\* initOnce.Do(init), first caller: runs init.  A caller that finds the
\* Once running waits for it.
OnceDoFirst(t) ==
    /\ tpc[t].at = "once"
    /\ once[tpc[t].curve] = "new"
    /\ once' = [once EXCEPT ![tpc[t].curve] = "running"]
    /\ initRuns' = [initRuns EXCEPT ![tpc[t].curve] = @ + 1]
    /\ Goto(t, "groupOrder")
    /\ UNCHANGED <<outsideNist, rev, desc, calls, writes, hist>>

\* initOnce.Do(init), init has completed: returns at once.
OnceDoDone(t) ==
    /\ tpc[t].at = "once"
    /\ once[tpc[t].curve] = "done"
    /\ Goto(t, "body")
    /\ UNCHANGED <<outsideNist, rev, once, desc, calls, initRuns, writes, hist>>

Written(c, to) == [by |-> c, to |-> to, onceOfTarget |-> once[to]]

\* init: the assignment of the group order.
InitGroupOrder(t) ==
    /\ tpc[t].at = "groupOrder"
    /\ desc' = [desc EXCEPT ![GroupOrderTarget(rev, tpc[t].curve)].groupOrder =
                                initOf[tpc[t].curve].groupOrder]
    /\ writes' = writes \cup
                   {Written(tpc[t].curve, GroupOrderTarget(rev, tpc[t].curve))}
    /\ Goto(t, "curveParams")
    /\ UNCHANGED <<outsideNist, rev, once, calls, initRuns, hist>>

\* init: setCurveParams / SetCurveParams.
InitCurveParams(t) ==
    /\ tpc[t].at = "curveParams"
    /\ desc' = [desc EXCEPT ![tpc[t].curve] =
                  IF rev = "nist"
                  THEN setCurveParams(@, initOf[tpc[t].curve].prime,
                                      initOf[tpc[t].curve].b)
                  ELSE SetCurveParams(@, initOf[tpc[t].curve].prime)]
    /\ writes' = writes \cup {Written(tpc[t].curve, tpc[t].curve)}
    /\ Goto(t, "mapping")
    /\ UNCHANGED <<outsideNist, rev, once, calls, initRuns, hist>>

\* init: setMapping / SetMapping.
InitMapping(t) ==
    /\ tpc[t].at = "mapping"
    /\ desc' = [desc EXCEPT ![tpc[t].curve] =
                  IF rev = "nist"
                  THEN setMapping(@, initOf[tpc[t].curve].hash,
                                  initOf[tpc[t].curve].z,
                                  initOf[tpc[t].curve].secLength)
                  ELSE SetMapping(@, initOf[tpc[t].curve].hash,
                                  initOf[tpc[t].curve].b, initOf[tpc[t].curve].z,
                                  initOf[tpc[t].curve].secLength)]
    /\ writes' = writes \cup {Written(tpc[t].curve, tpc[t].curve)}
    /\ Goto(t, "return")
    /\ UNCHANGED <<outsideNist, rev, once, calls, initRuns, hist>>

\* init returns: the Once is done, and the callers that waited go on.
OnceDoReturn(t) ==
    /\ tpc[t].at = "return"
    /\ once' = [once EXCEPT ![tpc[t].curve] = "done"]
    /\ Goto(t, "body")
    /\ UNCHANGED <<outsideNist, rev, desc, calls, initRuns, writes, hist>>

\* The operation reads the descriptor, computes and returns.
OpReturn(t) ==
    /\ tpc[t].at = "body"
    /\ hist' = hist \cup
                 {[op |-> tpc[t].op, curve |-> tpc[t].curve,
                   res |-> OpBody(tpc[t].op, desc[tpc[t].curve], testHashToGroupInput,
                           testHashToGroupDST)]}
    /\ tpc' = [tpc EXCEPT ![t] = Idle]
    /\ UNCHANGED <<outsideNist, rev, once, desc, calls, initRuns, writes>>

NextNist ==
    \E t \in Threads :
        \/ CallOp(t)
        \/ OnceDoFirst(t)
        \/ OnceDoDone(t)
        \/ InitGroupOrder(t)
        \/ InitCurveParams(t)
        \/ InitMapping(t)
        \/ OnceDoReturn(t)
        \/ OpReturn(t)

SpecNist == InitNist /\ [][NextNist]_vars

(***************************************************************************)
(* affineToPoint: threads convert the coordinates they computed to a       *)
(* point.  In package nist the buffer is one of the package-level          *)
(* decompressed256/384/521; in nist/internal it is local to the call.      *)
(***************************************************************************)
InitAffine ==
    /\ ExpStart
    /\ \E r \in Revs : NistStart(r)
    /\ AffStart
    /\ XofStart("SHAKE128")
    /\ I2ospStart
    /\ GroupStart
    /\ SswuStart
    /\ PureStart
    /\ XmdStart

\* The buffer the call of thread t writes to and hands to SetBytes.
BufferOf(t) == IF rev = "nist" THEN decompressed[aff[t].curve] ELSE aff[t].local

\* The call of thread t replaces its buffer by b.
SetBuffer(t, b, at) ==
    IF rev = "nist"
    THEN /\ decompressed' = [decompressed EXCEPT ![aff[t].curve] = b]
         /\ aff' = [aff EXCEPT ![t].at = at]
    ELSE /\ aff' = [aff EXCEPT ![t].at = at, ![t].local = b]
         /\ UNCHANGED decompressed

\* map2curve calls c.affineToPoint(x, y).
AffCall(t) ==
    /\ aff[t].at = "idle"
    /\ \E c \in Curves, xy \in AffineCoords :
          aff' = [aff EXCEPT ![t] = [at |-> "select", curve |-> c, x |-> xy[1],
                                     y |-> xy[2], local |-> <<>>,
                                     handed |-> <<>>]]
    /\ UNCHANGED <<outsideAff, decompressed>>

\* switch byteLen: decompressed = decompressed256[:] and decompressed[0] =
\* 0x04 (nist), or a new array [65]byte{0x04} (nist/internal).
AffSelect(t) ==
    /\ aff[t].at = "select"
    /\ SetBuffer(t, IF rev = "nist"
                    THEN WriteAt(decompressed[aff[t].curve], 0, <<4>>)
                    ELSE NewBuffer(aff[t].curve), "fillX")
    /\ UNCHANGED outsideAff

\* pxc.FillBytes(decompressed[1 : 1+byteLen])
AffFillX(t) ==
    /\ aff[t].at = "fillX"
    /\ SetBuffer(t, WriteAt(BufferOf(t), 1,
                            FillBytes(aff[t].x, ByteLen[aff[t].curve])), "fillY")
    /\ UNCHANGED outsideAff

\* pyc.FillBytes(decompressed[1+byteLen:])
AffFillY(t) ==
    /\ aff[t].at = "fillY"
    /\ SetBuffer(t, WriteAt(BufferOf(t), 1 + ByteLen[aff[t].curve],
                            FillBytes(aff[t].y, ByteLen[aff[t].curve])), "setBytes")
    /\ UNCHANGED outsideAff

\* c.newPoint().SetBytes(decompressed)
AffSetBytes(t) ==
    /\ aff[t].at = "setBytes"
    /\ aff' = [aff EXCEPT ![t].at = "done", ![t].handed = BufferOf(t)]
    /\ UNCHANGED <<outsideAff, decompressed>>

NextAffine ==
    \E t \in Threads :
        \/ AffCall(t)
        \/ AffSelect(t)
        \/ AffFillX(t)
        \/ AffFillY(t)
        \/ AffSetBytes(t)

SpecAffine == InitAffine /\ [][NextAffine]_vars

(***************************************************************************)
(* ExpandXOF on a shared ExtendableHash: threads call ExpandXOF with the   *)
(* same *hash.ExtendableHash.  A step is one use of the shared object:     *)
(* SetOutputSize or Hash.                                                  *)
(***************************************************************************)
\* The lengths and the DSTs of the concurrent calls.
SharedXofLengths == {minXofLength, minXofLength + recommendedMinLength}
SharedXofDsts == {Dst(recommendedMinLength), Dst(dstMaxLength + 1)}

InitXof ==
    /\ ExpStart
    /\ NistStart("split")
    /\ AffStart
    /\ \E id \in XofIds : XofStart(id)
    /\ I2ospStart
    /\ GroupStart
    /\ SswuStart
    /\ PureStart
    /\ XmdStart

\* ExpandXOF(ext, input, dst, length), after checkDST and the length check.
XofCall(t) ==
    /\ xo[t].at = "idle"
    /\ \E d \in SharedXofDsts, l \in SharedXofLengths :
          /\ checkDST(d) = ""
          /\ l <= MaxUint16
          /\ xo' = [xo EXCEPT ![t] = [at |-> "vet", input |-> Msg(MaxMsgLen),
                                      dst |-> d, length |-> l, vetted |-> <<>>,
                                      err |-> "", out |-> <<>>]]
    /\ UNCHANGED <<outsideXof, ext>>

\* VetXofDST: if len(dst) <= dstMaxLength { return dst }
XofVetShort(t) ==
    /\ xo[t].at = "vet"
    /\ Len(xo[t].dst) <= dstMaxLength
    /\ xo' = [xo EXCEPT ![t].at = "setSize", ![t].vetted = xo[t].dst]
    /\ UNCHANGED <<outsideXof, ext>>

\* VetXofDST: size := checkXOFSecurityLevel(x); x.SetOutputSize(size)
XofVetSetSize(t) ==
    /\ xo[t].at = "vet"
    /\ Len(xo[t].dst) > dstMaxLength
    /\ IF checkXOFSecurityLevel(ext).err # ""
       THEN /\ xo' = [xo EXCEPT ![t].at = "done",
                                ![t].err = checkXOFSecurityLevel(ext).err]
            /\ UNCHANGED ext
       ELSE /\ ext' = SetOutputSize(ext, checkXOFSecurityLevel(ext).size)
            /\ xo' = [xo EXCEPT ![t].at = "vetHash"]
    /\ UNCHANGED outsideXof

\* VetXofDST: return x.Hash([]byte(dstLongPrefix), dst)
XofVetHash(t) ==
    /\ xo[t].at = "vetHash"
    /\ xo' = [xo EXCEPT ![t].at = "setSize",
                        ![t].vetted = XofHash(ext, <<dstLongPrefix, xo[t].dst>>)]
    /\ UNCHANGED <<outsideXof, ext>>

\* len2o := I2OSP(length, 2); dstLen2o := I2OSP(uint(len(dst)), 1);
\* ext.SetOutputSize(int(length))
XofSetSize(t) ==
    /\ xo[t].at = "setSize"
    /\ IF I2osp(Len(xo[t].vetted), 1).err # ""
       THEN /\ xo' = [xo EXCEPT ![t].at = "done",
                                ![t].err = I2osp(Len(xo[t].vetted), 1).err]
            /\ UNCHANGED ext
       ELSE /\ ext' = SetOutputSize(ext, xo[t].length)
            /\ xo' = [xo EXCEPT ![t].at = "hash"]
    /\ UNCHANGED outsideXof

\* return ext.Hash(input, len2o, dst, dstLen2o)
XofHashOut(t) ==
    /\ xo[t].at = "hash"
    /\ xo' = [xo EXCEPT ![t].at = "done",
                        ![t].out = XofHash(ext, <<xo[t].input,
                                                  I2osp(xo[t].length, 2).out,
                                                  xo[t].vetted,
                                                  I2osp(Len(xo[t].vetted), 1).out>>)]
    /\ UNCHANGED <<outsideXof, ext>>

NextXof ==
    \E t \in Threads :
        \/ XofCall(t)
        \/ XofVetShort(t)
        \/ XofVetSetSize(t)
        \/ XofVetHash(t)
        \/ XofSetSize(t)
        \/ XofHashOut(t)

SpecXof == InitXof /\ [][NextXof]_vars

(***************************************************************************)
(* I2osp: one call, on a build with 32-bit or with 64-bit uint.            *)
(***************************************************************************)
MaxI2ospLength == 5

\* The halves of the values: around every power 2^8, 2^16, 2^24, 2^32.
I2ospHalves == {0, 1, 255, 256, 257, Half - 1}

\* The values a uint of the given width holds, up to 2^32.
I2ospValues(bits) ==
    {[hi |-> h, lo |-> l] : h \in I2ospHalves, l \in I2ospHalves}
        \cup (IF bits > 32 THEN {[hi |-> Half, lo |-> 0], [hi |-> Half, lo |-> 1]}
              ELSE {})

InitI2osp ==
    /\ ExpStart
    /\ NistStart("split")
    /\ AffStart
    /\ XofStart("SHAKE128")
    /\ \E bits \in UintWidths :
          \E w \in I2ospValues(bits), n \in 0..MaxI2ospLength :
              io = I2ospCall("call", bits, w, n)
    /\ GroupStart
    /\ SswuStart
    /\ PureStart
    /\ XmdStart

DoI2osp ==
    /\ io.at = "call"
    /\ io' = [io EXCEPT !.at = "done",
                        !.ret = I2ospWide(io.value, io.length, io.bits)]
    /\ UNCHANGED outsideI2osp

NextI2osp == DoI2osp

SpecI2osp == InitI2osp /\ [][NextI2osp]_vars

(***************************************************************************)
(* The uniform and the non-uniform operation of a group, called with the   *)
(* same input and DST: HashXMD and EncodeXMD of the NIST curves, and        *)
(* HashToGroup and EncodeToGroup of ristretto255.                          *)
(***************************************************************************)
Groups == Curves \cup {"ristretto255"}

\* The descriptor of curve c once its initialiser has run.
ReadyCurve(c) ==
    [groupOrder |-> initOf[c].groupOrder, field |-> initOf[c].prime,
     b |-> initOf[c].b, hash |-> initOf[c].hash,
     secLength |-> initOf[c].secLength, z |-> initOf[c].z]

\* ristretto255.NewElement().FromUniformBytes(uniform): a function of the
\* 64 uniform bytes.
FromUniformBytes(e) ==
    IF e.err # "" THEN [err |-> e.err, val |-> <<>>]
    ELSE [err |-> "", val |-> <<e.out>>]

\* ristretto255.HashToGroup
HashToGroup(input, dst) == FromUniformBytes(ExpandXMD("SHA512", input, dst, 64))

\* ristretto255.EncodeToGroup
EncodeToGroup(input, dst) == HashToGroup(input, dst)

UniformOp(g, input, dst) ==
    IF g = "ristretto255" THEN HashToGroup(input, dst)
    ELSE hashXMD(ReadyCurve(g), input, dst)

NonUniformOp(g, input, dst) ==
    IF g = "ristretto255" THEN EncodeToGroup(input, dst)
    ELSE encodeXMD(ReadyCurve(g), input, dst)

GroupInputs == Msgs \cup {testHashToGroupInput}
GroupDsts ==
    {Dst(1), Dst(recommendedMinLength), Dst(dstMaxLength),
     Dst(dstMaxLength + 1), testHashToGroupDST}

InitGroups ==
    /\ ExpStart
    /\ NistStart("split")
    /\ AffStart
    /\ XofStart("SHAKE128")
    /\ I2ospStart
    /\ \E g \in Groups, input \in GroupInputs, dst \in GroupDsts :
          grp = GroupCall("call", g, input, dst)
    /\ SswuStart
    /\ PureStart
    /\ XmdStart

DoUniform ==
    /\ grp.at = "call"
    /\ ~grp.roDone
    /\ grp' = [grp EXCEPT !.ro = UniformOp(grp.group, grp.input, grp.dst),
                          !.roDone = TRUE]
    /\ UNCHANGED outsideGroups

DoNonUniform ==
    /\ grp.at = "call"
    /\ ~grp.nuDone
    /\ grp' = [grp EXCEPT !.nu = NonUniformOp(grp.group, grp.input, grp.dst),
                          !.nuDone = TRUE]
    /\ UNCHANGED outsideGroups

NextGroups == DoUniform \/ DoNonUniform

SpecGroups == InitGroups /\ [][NextGroups]_vars

(***************************************************************************)
(* MapToCurveSSWU as map2curve calls it: on the field, B and Z of a curve, *)
(* with A = -3, for a field element u.                                     *)
(***************************************************************************)
\* The field elements: all of them, u = 0 and the two u for which
\* tv1 = Z * u^2 is -1 (where tv2 is 0 too) included.
SswuInputs(c) == 0..(initOf[c].prime - 1)

InitSswu ==
    /\ ExpStart
    /\ NistStart("split")
    /\ AffStart
    /\ XofStart("SHAKE128")
    /\ I2ospStart
    /\ GroupStart
    /\ \E c \in Curves :
          \E u \in SswuInputs(c) :
              sw = SswuLocals(0, c, NewField(initOf[c].prime), nistWa,
                              initOf[c].b, initOf[c].z, u)
    /\ PureStart
    /\ XmdStart

DoSswuStatement ==
    /\ sw.at \in 0..(SswuSteps - 1)
    /\ sw' = SswuStatement(sw)
    /\ UNCHANGED outsideSswu

NextSswu == DoSswuStatement

SpecSswu == InitSswu /\ [][NextSswu]_vars

(***************************************************************************)
(* Field.SqrtRatio on its own: for the primes p = 3 mod 4 up to            *)
(* MaxSqrtPrime, every non-square Z (given reduced or as the negative      *)
(* Z - p), every e in [0, p) and every v in [1, p).                        *)
(***************************************************************************)
MaxSqrtPrime == 23

IsPrime(n) == n > 1 /\ \A d \in 2..(n - 1) : n % d # 0

SqrtPrimes == {p \in 3..MaxSqrtPrime : p % 4 = 3 /\ IsPrime(p)}

\* a is the square of a non-zero element modulo p: its Legendre symbol is 1.
IsQuadraticResidue(a, p) == \E x \in 1..(p - 1) : (x * x) % p = a % p

NonSquares(p) ==
    {z \in 1..(p - 1) : ~IsQuadraticResidue(z, p)}
        \cup {z - p : z \in {w \in 1..(p - 1) : ~IsQuadraticResidue(w, p)}}

InitSqrtRatio ==
    /\ ExpStart
    /\ NistStart("split")
    /\ AffStart
    /\ XofStart("SHAKE128")
    /\ I2ospStart
    /\ GroupStart
    /\ SswuStart
    /\ \E p \in SqrtPrimes :
          \E z \in NonSquares(p), e \in 0..(p - 1), v \in 1..(p - 1) :
              pf = PureCall("call", "SqrtRatio",
                            [fp |-> NewField(p), z |-> z, e |-> e, v |-> v])
    /\ XmdStart

DoSqrtRatio ==
    /\ pf.at = "call"
    /\ pf.fn = "SqrtRatio"
    /\ pf' = [pf EXCEPT !.at = "done",
                        !.ret = SqrtRatio(pf.args.fp, pf.args.z, pf.args.e,
                                          pf.args.v)]
    /\ UNCHANGED outsidePure

NextSqrtRatio == DoSqrtRatio

SpecSqrtRatio == InitSqrtRatio /\ [][NextSqrtRatio]_vars

(***************************************************************************)
(* ExpandXMD with xmd: accepted calls of 1, 2, 3 and 255 blocks, with a    *)
(* DST that is kept and with one that is hashed during vetting.            *)
(***************************************************************************)
XmdBlockCounts == {1, 2, 3, 255}
XmdDsts == {Dst(recommendedMinLength), Dst(dstMaxLength + 1)}

InitXmd ==
    /\ ExpStart
    /\ NistStart("split")
    /\ AffStart
    /\ XofStart("SHAKE128")
    /\ I2ospStart
    /\ GroupStart
    /\ SswuStart
    /\ PureStart
    /\ \E id \in HashIds, dst \in XmdDsts, ell \in XmdBlockCounts :
          \E length \in {(ell - 1) * HashSize[id] + 1, ell * HashSize[id]} :
              /\ length <= MaxUint16
              /\ xm = XmdCall("call", id, Msg(MaxMsgLen), dst, length)

\* ExpandXMD with ell < 2: return b1[0:length].
XmdReturnB1 ==
    /\ xm.at = "call"
    /\ CeilDiv(xm.length, HashSize[xm.id]) < 2
    /\ xm' = [xm EXCEPT !.at = "done",
                        !.m = xmdFromCall(xm.id, xm.input, xm.dst, xm.length),
                        !.out = SubSeq(xmdFromCall(xm.id, xm.input, xm.dst,
                                                   xm.length).b1, 1, xm.length)]
    /\ UNCHANGED outsideXmd

\* ExpandXMD down to the first test of the loop of xmd.
XmdEnter ==
    /\ xm.at = "call"
    /\ CeilDiv(xm.length, HashSize[xm.id]) >= 2
    /\ xm' = [xm EXCEPT !.at = "loop",
                        !.m = xmdFromCall(xm.id, xm.input, xm.dst, xm.length),
                        !.b0At = xmdFromCall(xm.id, xm.input, xm.dst,
                                             xm.length).b0]
    /\ UNCHANGED outsideXmd

\* One iteration of the loop.
XmdIterate ==
    /\ xm.at = "loop"
    /\ xmdLoopContinues(xm.m)
    /\ xm' = [xm EXCEPT !.m = xmdIterate(xm.m),
                        !.prevBi = xm.m.bi,
                        !.uniformBefore = xm.m.uniformBytes]
    /\ UNCHANGED outsideXmd

\* return uniformBytes[0:length]
XmdReturn ==
    /\ xm.at = "loop"
    /\ ~xmdLoopContinues(xm.m)
    /\ xm' = [xm EXCEPT !.at = "done",
                        !.out = SubSeq(xm.m.uniformBytes, 1, xm.m.length)]
    /\ UNCHANGED outsideXmd

NextXmd == XmdReturnB1 \/ XmdEnter \/ XmdIterate \/ XmdReturn

SpecXmd == InitXmd /\ [][NextXmd]_vars

(***************************************************************************)
(* One sequential call of ExpandXOF on an ExtendableHash that had any       *)
(* output size before the call, in both revisions of the function: the one  *)
(* that sets the output size before it hashes (part_002) and the one that   *)
(* hands the size to Hash (src/internal/xof.go).  pf.ret.x is the           *)
(* ExtendableHash, pf.ret.v the vetted DST, pf.ret.e the returned bytes.    *)
(***************************************************************************)
XofRevisions == {"SetOutputSize", "HashSize"}

\* Output sizes the ExtendableHash was given by earlier uses.
XofSizesBefore == {minXofLength, 48, 64, 300, MaxUint16}

SeqXofDsts == {Dst(recommendedMinLength), Dst(dstMaxLength),
               Dst(dstMaxLength + 1), Dst(dstMaxLength + 45)}

SeqXofLengths == {minXofLength, 300, MaxUint16}

InitExpandXof ==
    /\ ExpStart
    /\ NistStart("split")
    /\ AffStart
    /\ XofStart("SHAKE128")
    /\ I2ospStart
    /\ GroupStart
    /\ SswuStart
    /\ XmdStart
    /\ \E r \in XofRevisions, id \in XofIds, s \in XofSizesBefore,
          d \in SeqXofDsts, l \in SeqXofLengths :
          pf = PureCall("call", "ExpandXOF",
                        [rev |-> r, ext |-> [id |-> id, size |-> s],
                         input |-> Msg(MaxMsgLen), dst |-> d, length |-> l])

\* dst = VetXofDST(ext, dst)
XofSeqVet ==
    /\ pf.at = "call"
    /\ pf.fn = "ExpandXOF"
    /\ pf' = [pf EXCEPT !.at = "vetted",
                        !.ret = IF pf.args.rev = "SetOutputSize"
                                THEN VetXofDST(pf.args.ext, pf.args.dst)
                                ELSE VetXofDSTHashSize(pf.args.ext, pf.args.dst)]
    /\ UNCHANGED outsidePure

\* ext.SetOutputSize(int(length)); return ext.Hash(input, len2o, dst, dstLen2o)
\* and return ext.Hash(length, input, len2o, dst, dstLen2o)
XofSeqHash ==
    /\ pf.at = "vetted"
    /\ pf.fn = "ExpandXOF"
    /\ pf' = [pf EXCEPT !.at = "done",
                        !.ret = ExpandXOFVetted(pf.ret, pf.args.input,
                                                pf.args.length)]
    /\ UNCHANGED outsidePure

NextExpandXof == XofSeqVet \/ XofSeqHash

SpecExpandXof == InitExpandXof /\ [][NextExpandXof]_vars

(***************************************************************************)
(* edwards25519: adjust and HashToScalar.  Byte strings are handled as      *)
(* such, at their real length of 32 bytes; the field element HashToFieldXMD *)
(* returns, an integer in [0, order), is given by the bytes of             *)
(* sc[0].Bytes(), its minimal big-endian encoding.                          *)
(***************************************************************************)
canonicalEncodingLength == 32

\* HashToScalar: the literal orderBytes, which new(big.Int).SetBytes reads as
\* a big-endian integer.
orderBytes ==
    <<237, 211, 245, 92, 26, 99, 18, 88, 214, 156, 247, 162, 222, 249, 222, 20,
      0, 0, 0, 0, 0, 0, 0, 0, 0, 0, 0, 0, 0, 0, 0, 16>>

\* filippo.io/edwards25519: the little-endian bytes of l - 1, for the group
\* order l = 2^252 + 27742317777372353535851937790883648493.
scalarMinusOneBytes ==
    <<236, 211, 245, 92, 26, 99, 18, 88, 214, 156, 247, 162, 222, 249, 222, 20,
      0, 0, 0, 0, 0, 0, 0, 0, 0, 0, 0, 0, 0, 0, 0, 16>>

\* b[i], b[l-i] = b[l-i], b[i] (indices from 1 here)
Swapped(b, i, j) == [b EXCEPT ![i] = b[j], ![j] = b[i]]

\* reverse: for i := range len(b) / 2, from the i-th iteration on.
RECURSIVE reverseFrom(_, _)
reverseFrom(b, i) ==
    IF i >= Len(b) \div 2 THEN b
    ELSE reverseFrom(Swapped(b, i + 1, Len(b) - i), i + 1)

reverse(b) == reverseFrom(b, 0)

\* adjust: left-pad to canonicalEncodingLength bytes, then reverse.
adjust(in) ==
    IF canonicalEncodingLength - Len(in) > 0
    THEN reverse(Zeros(canonicalEncodingLength - Len(in)) \o in)
    ELSE reverse(in)

\* isReduced of filippo.io/edwards25519: compare with l - 1 from the most
\* significant byte down.
RECURSIVE isReducedFrom(_, _)
isReducedFrom(s, i) ==
    IF i = 0 THEN TRUE
    ELSE IF s[i] > scalarMinusOneBytes[i] THEN FALSE
    ELSE IF s[i] < scalarMinusOneBytes[i] THEN TRUE
    ELSE isReducedFrom(s, i - 1)

\* edwards25519.NewScalar().SetCanonicalBytes(b)
SetCanonicalBytes(b) ==
    IF Len(b) # 32 THEN [err |-> "invalid scalar length", s |-> <<>>]
    ELSE IF ~isReducedFrom(b, 32) THEN [err |-> "invalid scalar encoding", s |-> <<>>]
    ELSE [err |-> "", s |-> b]

\* HashToScalar from b := adjust(sc[0].Bytes())
HashToScalarFromField(bytes) == SetCanonicalBytes(adjust(bytes))

\* a < b for the integers of two minimal big-endian byte strings.
RECURSIVE BytesLessFrom(_, _, _)
BytesLessFrom(a, b, i) ==
    IF i > Len(a) THEN FALSE
    ELSE IF a[i] # b[i] THEN a[i] < b[i]
    ELSE BytesLessFrom(a, b, i + 1)

BytesLess(a, b) ==
    \/ Len(a) < Len(b)
    \/ Len(a) = Len(b) /\ BytesLessFrom(a, b, 1)

\* Byte strings without a leading zero, of every length up to 32.
BytePattern(n, s) ==
    [i \in 1..n |-> IF i = 1 THEN s ELSE (i * s * 37 + 11 * s + i) % 256]

AdjustInputs ==
    {BytePattern(n, s) : n \in 0..canonicalEncodingLength, s \in {1, 128, 255}}

\* The group order l and l - 1, big-endian.
GroupOrderMinusOne == [i \in 1..32 |-> scalarMinusOneBytes[33 - i]]
GroupOrder == [GroupOrderMinusOne EXCEPT ![32] = 237]

\* Values HashToFieldXMD(crypto.SHA512, input, dst, 1, 1, 48, order) can
\* return: integers below order = new(big.Int).SetBytes(orderBytes).
ScalarFieldValues ==
    {b \in AdjustInputs \cup {GroupOrderMinusOne, GroupOrder,
                              [orderBytes EXCEPT ![32] = 15]} :
        BytesLess(b, orderBytes)}

InitAdjust ==
    /\ ExpStart
    /\ NistStart("split")
    /\ AffStart
    /\ XofStart("SHAKE128")
    /\ I2ospStart
    /\ GroupStart
    /\ SswuStart
    /\ XmdStart
    /\ \/ \E b \in AdjustInputs : pf = PureCall("call", "adjust", b)
       \/ \E b \in ScalarFieldValues : pf = PureCall("call", "HashToScalar", b)

DoAdjust ==
    /\ pf.at = "call"
    /\ pf.fn = "adjust"
    /\ pf' = [pf EXCEPT !.at = "done", !.ret = adjust(pf.args)]
    /\ UNCHANGED outsidePure

DoHashToScalar ==
    /\ pf.at = "call"
    /\ pf.fn = "HashToScalar"
    /\ pf' = [pf EXCEPT !.at = "done", !.ret = HashToScalarFromField(pf.args)]
    /\ UNCHANGED outsidePure

NextAdjust == DoAdjust \/ DoHashToScalar

SpecAdjust == InitAdjust /\ [][NextAdjust]_vars

(***************************************************************************)
(* edwards25519: Elligator 2, the map to the Edwards curve, HashToCurve and *)
(* EncodeToCurve.  The field of 2^255 - 19 elements is beyond the integers  *)
(* of the model checker; the model keeps the code and takes a curve of the  *)
(* same shape over a small field: p = 5 mod 8 (so that 2 is a non-square,   *)
(* -1 a square, and SqrtRatio is the one of filippo.io/edwards25519),       *)
(* v^2 = u^3 + A*u^2 + u with A^2 - 4 a non-square and -(A + 2) a square,   *)
(* -x^2 + y^2 = 1 + d*x^2*y^2 with d = -(A - 2)/(A + 2), and a group of     *)
(* 8 * l points for a prime l.                                              *)
(***************************************************************************)
curve25519 ==
    [p |-> 61,          \* fieldPrime()
     A |-> 10,          \* a, 486662
     sqrtM1 |-> 11,     \* 2^((p - 1)/4), the square root of -1 of the library
     invsqrtD |-> 54,   \* the even square root of -(A + 2)
     d |-> 40,          \* -(A - 2)/(A + 2)
     l |-> 7]           \* the prime order of the subgroup

FeAdd(a, b) == (a + b) % curve25519.p
FeSubtract(a, b) == (a - b + curve25519.p) % curve25519.p
FeNegate(a) == (curve25519.p - a) % curve25519.p
FeMultiply(a, b) == (a * b) % curve25519.p
FeSquare(a) == (a * a) % curve25519.p
FePow(a, n) == BigExp(a, n, curve25519.p)

\* Invert: a^(p-2), which is 0 for 0.
FeInvert(a) == FePow(a, curve25519.p - 2)

\* IsNegative: the low bit of the canonical encoding.
FeIsNegative(a) == a % 2

\* Absolute
FeAbsolute(a) == IF FeIsNegative(a) = 1 THEN FeNegate(a) ELSE a

\* SqrtRatio of field.Element from check := v * r^2
FeSqrtRatioChecked(u, v, rr, check) ==
    [r |-> FeAbsolute(IF \/ check = FeNegate(u)
                         \/ check = FeMultiply(FeNegate(u), curve25519.sqrtM1)
                      THEN FeMultiply(rr, curve25519.sqrtM1) ELSE rr),
     wasSquare |-> IF check = u \/ check = FeNegate(u) THEN 1 ELSE 0]

\* SqrtRatio from r = (u * v^3) * (u * v^7)^((p-5)/8)
FeSqrtRatioFrom(u, v, rr) ==
    FeSqrtRatioChecked(u, v, rr, FeMultiply(v, FeSquare(rr)))

FeSqrtRatio(u, v) ==
    FeSqrtRatioFrom(u, v,
        FeMultiply(FeMultiply(u, FePow(v, 3)),
                   FePow(FeMultiply(u, FePow(v, 7)), (curve25519.p - 5) \div 8)))

\* x2 := fe().Negate(x1); x2.Add(x2, a)
ellX2Added(x1, a) == FeAdd(FeNegate(x1), a)

\* x2 := fe().Negate(x1); x2.Subtract(x2, a)
ellX2(x1, a) == FeSubtract(FeNegate(x1), a)

\* Elligator2Montgomery from root1, _isSquare := fe().SqrtRatio(gx1, one)
ellSelect(t1, e1, x1, x2, gx1, gx2, root1, root2) ==
    [t1 |-> t1, e1 |-> e1, x1 |-> x1, x2 |-> x2, gx1 |-> gx1, gx2 |-> gx2,
     x |-> IF root1.wasSquare = 1 THEN x1 ELSE x2,
     y |-> IF root1.wasSquare = 1 THEN FeNegate(root1.r) ELSE root2.r]

\* Elligator2Montgomery from gx1 := ...
ellFromGx1(t1, e1, x1, x2, gx1) ==
    ellSelect(t1, e1, x1, x2, gx1, FeMultiply(t1, gx1),
              FeSqrtRatio(gx1, 1), FeSqrtRatio(FeMultiply(t1, gx1), 1))

\* Elligator2Montgomery from x1 := fe().Add(t1, one)
ellFromX1(t1, e1, x1) ==
    ellFromGx1(t1, e1, x1, ellX2(x1, curve25519.A),
               FeMultiply(FeAdd(FeMultiply(FeAdd(x1, curve25519.A), x1), 1), x1))

\* Elligator2Montgomery from t1.Swap(fe().Zero(), e1): t1 is 0 if e1 = 1.
ellFromT1(t1, e1) ==
    ellFromX1(t1, e1,
              FeMultiply(FeInvert(FeAdd(t1, 1)), FeNegate(curve25519.A)))

\* Elligator2Montgomery from e1 := t1.Equal(minOne)
ellFromSquare(t1) ==
    IF t1 = FeNegate(1) THEN ellFromT1(0, 1) ELSE ellFromT1(t1, 0)

Elligator2Montgomery(e) == ellFromSquare(FeMultiply(FeSquare(e), 2))

MontgomeryUToEdwardsY(u) ==
    FeMultiply(FeSubtract(u, 1), FeInvert(FeAdd(u, 1)))

MontgomeryToEdwards(u, v) ==
    [x |-> FeMultiply(FeMultiply(FeInvert(v), u), curve25519.invsqrtD),
     y |-> MontgomeryUToEdwardsY(u)]

\* -x^2 + y^2 = 1 + d*x^2*y^2
OnEdwards(x, y) ==
    FeSubtract(FeSquare(y), FeSquare(x))
        = FeAdd(1, FeMultiply(curve25519.d, FeMultiply(FeSquare(x), FeSquare(y))))

\* SetExtendedCoordinates(x, y, 1, x*y) fails for a point outside the curve.
AffineToEdwards(x, y) ==
    IF OnEdwards(x, y) THEN [err |-> "", x |-> x, y |-> y]
    ELSE [err |-> "edwards25519: invalid point coordinates", x |-> 0, y |-> 1]

Elligator2EdwardsOf(m) == AffineToEdwards(MontgomeryToEdwards(m.x, m.y).x,
                                          MontgomeryToEdwards(m.x, m.y).y)

Elligator2Edwards(e) == Elligator2EdwardsOf(Elligator2Montgomery(e))

\* Point.Add: the addition of the twisted Edwards curve, with t = d*x1*x2*y1*y2.
PointAddWith(p, q, t) ==
    [err |-> "",
     x |-> FeMultiply(FeAdd(FeMultiply(p.x, q.y), FeMultiply(p.y, q.x)),
                      FeInvert(FeAdd(1, t))),
     y |-> FeMultiply(FeAdd(FeMultiply(p.y, q.y), FeMultiply(p.x, q.x)),
                      FeInvert(FeSubtract(1, t)))]

PointAdd(p, q) ==
    PointAddWith(p, q, FeMultiply(curve25519.d,
                           FeMultiply(FeMultiply(p.x, q.x), FeMultiply(p.y, q.y))))

\* Two doublings only.
MultByFour(p) == PointAdd(PointAdd(p, p), PointAdd(p, p))

\* Point.MultByCofactor: three doublings.
MultByCofactor(p) ==
    PointAdd(PointAdd(PointAdd(p, p), PointAdd(p, p)),
             PointAdd(PointAdd(p, p), PointAdd(p, p)))

FieldElements == 0..(curve25519.p - 1)

NoEdPoint == [err |-> "none", x |-> 0, y |-> 0]

\* The points and the operations of one call, in their order.
EdLocals == [p0 |-> NoEdPoint, p1 |-> NoEdPoint, ops |-> <<>>]

InitEdwards ==
    /\ ExpStart
    /\ NistStart("split")
    /\ AffStart
    /\ XofStart("SHAKE128")
    /\ I2ospStart
    /\ GroupStart
    /\ SswuStart
    /\ XmdStart
    /\ \/ \E u0 \in FieldElements, u1 \in FieldElements :
             pf = [PureCall("call", "HashToCurve", <<u0, u1>>)
                      EXCEPT !.ret = EdLocals]
       \/ \E u \in FieldElements :
             pf = [PureCall("call", "EncodeToCurve", <<u>>)
                      EXCEPT !.ret = EdLocals]
       \/ \E e \in FieldElements :
             pf = PureCall("call", "Elligator2Montgomery", <<e>>)

EdCalled(at) ==
    /\ pf.fn \in {"HashToCurve", "EncodeToCurve"}
    /\ pf.at = at

EdStep(at, r) ==
    /\ pf' = [pf EXCEPT !.at = at, !.ret = r]
    /\ UNCHANGED outsidePure

\* p0 := Elligator2Edwards(q0)
EdMapFirst ==
    /\ EdCalled("call")
    /\ EdStep("mapped0", [pf.ret EXCEPT !.p0 = Elligator2Edwards(pf.args[1]),
                                        !.ops = Append(pf.ret.ops, "map")])

\* p1 := Elligator2Edwards(q1)
EdMapSecond ==
    /\ EdCalled("mapped0")
    /\ pf.fn = "HashToCurve"
    /\ EdStep("mapped1", [pf.ret EXCEPT !.p1 = Elligator2Edwards(pf.args[2]),
                                        !.ops = Append(pf.ret.ops, "map")])

\* p0.Add(p0, p1)
EdAdd ==
    /\ EdCalled("mapped1")
    /\ EdStep("added", [pf.ret EXCEPT !.p0 = PointAdd(pf.ret.p0, pf.ret.p1),
                                      !.ops = Append(pf.ret.ops, "add")])

\* p0.MultByCofactor(p0)
EdMultByCofactor ==
    /\ \/ EdCalled("added")
       \/ EdCalled("mapped0") /\ pf.fn = "EncodeToCurve"
    /\ EdStep("cleared", [pf.ret EXCEPT !.p0 = MultByCofactor(pf.ret.p0),
                                        !.ops = Append(pf.ret.ops, "cofactor")])

\* return p0
EdReturn ==
    /\ EdCalled("cleared")
    /\ EdStep("done", pf.ret)

DoElligator2Montgomery ==
    /\ pf.at = "call"
    /\ pf.fn = "Elligator2Montgomery"
    /\ EdStep("done", Elligator2Montgomery(pf.args[1]))

NextEdwards ==
    \/ EdMapFirst
    \/ EdMapSecond
    \/ EdAdd
    \/ EdMultByCofactor
    \/ EdReturn
    \/ DoElligator2Montgomery

SpecEdwards == InitEdwards /\ [][NextEdwards]_vars

(***************************************************************************)
(* secp256k1: map2IsoCurve, the affine add, the 3-isogeny, Point.Bytes,     *)
(* HashToCurve and EncodeToCurve.  The model keeps the code and takes       *)
(* curves of the same shape over GF(67): p = 3 mod 4 and 1 mod 3,           *)
(* E': y^2 = x^3 + A'x + B' with A'B' # 0 and E: y^2 = x^3 + b with b a     *)
(* non-square, both of the prime order 73, and the 3-isogeny E' -> E of     *)
(* kernel polynomial x - 23, whose denominators are (x - 23)^2 and          *)
(* (x - 23)^3; 23 is not the abscissa of a point of E'.                     *)
(***************************************************************************)
secp256k1 ==
    [fp |-> NewField(67),
     secp256k13ISOA |-> 1, secp256k13ISOB |-> 54, mapZ |-> 30, b |-> 2,
     k10 |-> 48, k11 |-> 20, k12 |-> 21, k13 |-> 1,
     k20 |-> 60, k21 |-> 21,
     k30 |-> 47, k31 |-> 19, k32 |-> 65, k33 |-> 1,
     k40 |-> 27, k41 |-> 46, k42 |-> 65]

newPoint(x, y) == [X |-> x, Y |-> y]

\* MapToCurveSSWU: the statements that follow those done, to the return.
RECURSIVE SswuRun(_)
SswuRun(r) == IF r.at = SswuSteps THEN r ELSE SswuRun(SswuStatement(r))

MapToCurveSSWU(f, a, b, z, fe) == SswuRun(SswuLocals(0, "secp256k1", f, a, b, z, fe))

map2IsoCurveOf(r) == newPoint(r.x, r.y)

map2IsoCurve(fe) ==
    map2IsoCurveOf(MapToCurveSSWU(secp256k1.fp, secp256k1.secp256k13ISOA,
                                  secp256k1.secp256k13ISOB, secp256k1.mapZ, fe))

\* Point.add from fp.Square(&t0, &ll), for the slope ll and the new x.
addWithX(f, p, e, ll, x) == newPoint(x, Sub(f, Mul(f, Sub(f, p.X, x), ll), p.Y))

addWithSlope(f, p, e, ll) ==
    addWithX(f, p, e, ll, Sub(f, Sub(f, Square(f, ll), p.X), e.X))

\* Point.add: l = (y2 - y1) * Inv(x2 - x1)
add(p, e) ==
    addWithSlope(secp256k1.fp, p, e,
                 Mul(secp256k1.fp, Sub(secp256k1.fp, e.Y, p.Y),
                     Inv(secp256k1.fp, Sub(secp256k1.fp, e.X, p.X))))

\* isogenySecp256k13iso from fp.Inv(px, &xDen)
isogenyFinal(f, y, xNum, xDen, yNum, yDen) ==
    [xNum |-> xNum, xDen |-> xDen, yNum |-> yNum, yDen |-> yDen,
     px |-> Mul(f, Inv(f, xDen), xNum),
     py |-> Mul(f, Mul(f, Inv(f, yDen), yNum), y),
     isIdentity |-> IsZero(Inv(f, xDen)) \/ IsZero(Inv(f, yDen))]

\* isogenySecp256k13iso from the powers x2 and x3 of x.
isogenyPowers(f, k, x, y, x2, x3) ==
    isogenyFinal(f, y,
        Add(f, Add(f, Add(f, Mul(f, k.k13, x3), Mul(f, k.k12, x2)),
                   Mul(f, k.k11, x)), k.k10),
        Add(f, Add(f, x2, Mul(f, k.k21, x)), k.k20),
        Add(f, Add(f, Add(f, Mul(f, k.k33, x3), Mul(f, k.k32, x2)),
                   Mul(f, k.k31, x)), k.k30),
        Add(f, Add(f, Add(f, x3, Mul(f, k.k42, x2)), Mul(f, k.k41, x)), k.k40))

isogenySecp256k13iso(x, y) ==
    isogenyPowers(secp256k1.fp, secp256k1, x, y, Mul(secp256k1.fp, x, x),
                  Mul(secp256k1.fp, Mul(secp256k1.fp, x, x), x))

isogeny3isoOf(r) == IF r.isIdentity THEN newPoint(0, 0) ELSE newPoint(r.px, r.py)

isogeny3iso(e) == isogeny3isoOf(isogenySecp256k13iso(e.X, e.Y))

\* A sign that is never 0.
AbsSignOfNonZero(v) == 1

\* big.Int.Sign, absolute value
AbsSign(v) == IF v = 0 THEN 0 ELSE 1

\* Point.Bytes: nonZero & of the signs (0 or 1), sign := 2 | Y.Bit(0),
\* output[0] = (nonZero * sign) & 3, X.FillBytes(output[1:]).
PointBytes(p) ==
    <<(((AbsSign(p.X) * AbsSign(p.Y)) * (2 + (p.Y % 2))) % 4)>> \o FillBytes(p.X, 32)

SecpFieldElements == 0..(secp256k1.fp.order - 1)

NoSecpPoint == newPoint(-1, -1)

SecpLocals ==
    [q0 |-> NoSecpPoint, q1 |-> NoSecpPoint, sum |-> NoSecpPoint,
     iso |-> [isIdentity |-> FALSE], out |-> NoSecpPoint, bytes |-> <<>>]

InitSecp ==
    /\ ExpStart
    /\ NistStart("split")
    /\ AffStart
    /\ XofStart("SHAKE128")
    /\ I2ospStart
    /\ GroupStart
    /\ SswuStart
    /\ XmdStart
    /\ \/ \E u0 \in SecpFieldElements, u1 \in SecpFieldElements :
             pf = [PureCall("call", "HashToCurve", <<u0, u1>>)
                      EXCEPT !.ret = SecpLocals]
       \/ \E u \in SecpFieldElements :
             pf = [PureCall("call", "EncodeToCurve", <<u>>)
                      EXCEPT !.ret = SecpLocals]
       \/ \E x \in SecpFieldElements, y \in SecpFieldElements :
             pf = [PureCall("call", "IsogenySecp256k13iso", <<x, y>>)
                      EXCEPT !.ret = [SecpLocals EXCEPT !.sum = newPoint(x, y)]]

SecpAt(at) ==
    /\ pf.fn \in {"HashToCurve", "EncodeToCurve"}
    /\ pf.at = at

SecpStep(at, r) ==
    /\ pf' = [pf EXCEPT !.at = at, !.ret = r]
    /\ UNCHANGED outsidePure

\* q0 := map2IsoCurve(u[0])
SecpMapFirst ==
    /\ SecpAt("call")
    /\ SecpStep("mapped0", [pf.ret EXCEPT !.q0 = map2IsoCurve(pf.args[1]),
                                          !.sum = map2IsoCurve(pf.args[1])])

\* q1 := map2IsoCurve(u[1])
SecpMapSecond ==
    /\ SecpAt("mapped0")
    /\ pf.fn = "HashToCurve"
    /\ SecpStep("mapped1", [pf.ret EXCEPT !.q1 = map2IsoCurve(pf.args[2])])

\* q0.add(q1)
SecpAdd ==
    /\ SecpAt("mapped1")
    /\ SecpStep("added", [pf.ret EXCEPT !.sum = add(pf.ret.q0, pf.ret.q1)])

\* return isogeny3iso(q0), and the exported IsogenySecp256k13iso(x, y)
\* followed by "if isIdentity" in its caller.
SecpIsogeny ==
    /\ \/ SecpAt("added")
       \/ SecpAt("mapped0") /\ pf.fn = "EncodeToCurve"
       \/ pf.fn = "IsogenySecp256k13iso" /\ pf.at = "call"
    /\ SecpStep("returned",
                [pf.ret EXCEPT !.iso = isogenySecp256k13iso(pf.ret.sum.X,
                                                           pf.ret.sum.Y),
                               !.out = isogeny3iso(pf.ret.sum)])

\* The caller encodes the point: Point.Bytes.
SecpBytes ==
    /\ pf.fn \in {"HashToCurve", "EncodeToCurve", "IsogenySecp256k13iso"}
    /\ pf.at = "returned"
    /\ SecpStep("done", [pf.ret EXCEPT !.bytes = PointBytes(pf.ret.out)])

NextSecp ==
    \/ SecpMapFirst
    \/ SecpMapSecond
    \/ SecpAdd
    \/ SecpIsogeny
    \/ SecpBytes

SpecSecp == InitSecp /\ [][NextSecp]_vars

(***************************************************************************)
(* The memory of the caller.  A slice is the first len elements of its      *)
(* backing array arr, and its capacity is the length of arr: append writes  *)
(* in place when the capacity allows it and allocates otherwise.            *)
(***************************************************************************)
Slice(arr, n) == [arr |-> arr, len |-> n]

SliceBytes(s) == SubSeq(s.arr, 1, s.len)

\* The backing array of s after append(s, b): written at the index len(s)
\* when len(s) < cap(s), left alone when append allocates a new array.
BackingAfterAppend(s, b) ==
    IF s.len < Len(s.arr) THEN [s.arr EXCEPT ![s.len + 1] = b] ELSE s.arr

\* DstPrime(dst): the result and the backing array of dst after the call.
DstPrimeInMemory(s) ==
    IF DstPrime(SliceBytes(s)).err # ""
    THEN [err |-> DstPrime(SliceBytes(s)).err, out |-> <<>>, arr |-> s.arr]
    ELSE [err |-> "", out |-> DstPrime(SliceBytes(s)).out,
          arr |-> BackingAfterAppend(s, I2osp(s.len, 1).out[1])]

\* The backing array of the caller's dst after a call that returned r:
\* VetDSTXMD returns the caller's slice when len(dst) <= 255, and the digest
\* of a longer one; every panic of ExpandXMD precedes DstPrime(dst).
BackingAfterExpand(s, r) ==
    IF r.err = "" /\ s.len <= dstMaxLength THEN DstPrimeInMemory(s).arr ELSE s.arr

ExpandXMDInMemory(id, input, s, length) ==
    [err |-> ExpandXMD(id, input, SliceBytes(s), length).err,
     out |-> ExpandXMD(id, input, SliceBytes(s), length).out,
     arr |-> BackingAfterExpand(s, ExpandXMD(id, input, SliceBytes(s), length))]

\* HashToFieldXMD: expand count * ext * securityLength bytes, then reduce.
HashToFieldXMDInMemory(id, input, s, count, extension, securityLength, modulo) ==
    [err |-> HashToFieldXMD(id, input, SliceBytes(s), count, extension,
                            securityLength, modulo).err,
     out |-> HashToFieldXMD(id, input, SliceBytes(s), count, extension,
                            securityLength, modulo).out,
     arr |-> BackingAfterExpand(s, ExpandXMD(id, input, SliceBytes(s),
                                             count * extension * securityLength))]

\* Bytes of the caller's buffer beyond the DST.
BeyondDst(n) == [i \in 1..n |-> 170 + i]

FrameOps == {"DstPrime", "ExpandXMD", "HashToFieldXMD"}

\* Lengths of the DST and spare capacities of its slice.
FrameDstLens == {1, recommendedMinLength, dstMaxLength, dstMaxLength + 1}
FrameSpare == {0, 1, 3}
FrameLengths == {1, 32, 100}

InitFrame ==
    /\ ExpStart
    /\ NistStart("split")
    /\ AffStart
    /\ XofStart("SHAKE128")
    /\ I2ospStart
    /\ GroupStart
    /\ SswuStart
    /\ XmdStart
    /\ \E op \in FrameOps, id \in HashIds, n \in FrameDstLens, k \in FrameSpare,
          l \in FrameLengths :
          pf = PureCall("call", op,
                        [id |-> id, input |-> Msg(MaxMsgLen),
                         dst |-> Slice(Dst(n) \o BeyondDst(k), n), length |-> l])

FrameReturn(r) ==
    /\ pf' = [pf EXCEPT !.at = "done", !.ret = r]
    /\ UNCHANGED outsidePure

FrameDstPrime ==
    /\ pf.at = "call"
    /\ pf.fn = "DstPrime"
    /\ FrameReturn(DstPrimeInMemory(pf.args.dst))

FrameExpandXMD ==
    /\ pf.at = "call"
    /\ pf.fn = "ExpandXMD"
    /\ FrameReturn(ExpandXMDInMemory(pf.args.id, pf.args.input, pf.args.dst,
                                     pf.args.length))

\* HashToFieldXMD(id, input, dst, 2, 1, 48, modulo) as the curves call it.
FrameHashToFieldXMD ==
    /\ pf.at = "call"
    /\ pf.fn = "HashToFieldXMD"
    /\ FrameReturn(HashToFieldXMDInMemory(pf.args.id, pf.args.input, pf.args.dst,
                                          2, 1, 48, 65521))

NextFrame == FrameDstPrime \/ FrameExpandXMD \/ FrameHashToFieldXMD

SpecFrame == InitFrame /\ [][NextFrame]_vars

(***************************************************************************)
(* Properties of the expanders and of hash_to_field (specification Spec).  *)
(***************************************************************************)
Returned == pc = "done"
FieldOps == {"HashToFieldXMD", "HashToFieldXOF"}
ExpandOps == {"ExpandXMD", "ExpandXOF"}

\* H("H2C-OVERSIZE-DST-" || dst) for the hash id.
ShortenedDST(id, dst) == hash_(NewHash(id), <<dstLongPrefix, dst>>).sum

\* C1: ExpandXMD, ExpandXOF, HashToFieldXMD and HashToFieldXOF abort with the
\* zero-length-DST error exactly when the DST is empty, and then before any
\* hash or XOF invocation; a DST of 1 to 15 bytes is accepted and absorbed,
\* followed by its length byte, like a longer one.
ZeroLenDSTExactly ==
    Returned =>
        /\ (ret.err = "errZeroLenDST") <=> (Len(call.dst) = 0)
        /\ (Len(call.dst) = 0) => (ret.exp.hashes = 0)
        /\ (Len(call.dst) \in 1..15) =>
              /\ ret.exp.err \in {"", "errLengthTooLarge"}
              /\ (ret.exp.err = "") =>
                    (ret.exp.dstPrime = call.dst \o <<Len(call.dst)>>)

ZeroLenDSTAborts ==
    /\ Returned
    /\ call.op = "HashToFieldXOF"
    /\ Len(call.dst) = 0
    /\ ret.err = "errZeroLenDST"
    /\ ret.exp.hashes = 0

\* C2: the byte string ExpandXMD returns for an accepted length has exactly
\* that many bytes, when b1 is truncated (ell < 2) and when ell blocks are
\* concatenated and truncated (ell >= 2); so has the one ExpandXOF returns.
ExpandLengthExact ==
    (Returned /\ call.op \in ExpandOps /\ ret.err = "") =>
        (Len(ret.exp.out) = call.length)

ExpandTruncatesBlocks ==
    /\ Returned
    /\ call.op = "ExpandXMD"
    /\ ret.err = ""
    /\ call.length = 2 * HashSize[call.id] + 1
    /\ Len(ret.exp.out) = call.length
    /\ Len(ret.exp.buf) = 3 * HashSize[call.id]

VettedDSTPrime ==
    (Returned /\ call.op \in {"ExpandXMD", "HashToFieldXMD"} /\ ret.exp.err = "") =>
        /\ Len(ret.exp.dstPrime) - 1 \in 1..255
        /\ ret.exp.dstPrime[Len(ret.exp.dstPrime)] = Len(ret.exp.dstPrime) - 1
        /\ (Len(call.dst) <= 255) =>
              (SubSeq(ret.exp.dstPrime, 1, Len(ret.exp.dstPrime) - 1) = call.dst)
        /\ (Len(call.dst) >= 256) =>
              (SubSeq(ret.exp.dstPrime, 1, Len(ret.exp.dstPrime) - 1)
                  = ShortenedDST(call.id, call.dst))

OversizeDSTVetted ==
    /\ Returned
    /\ call.op = "HashToFieldXMD"
    /\ Len(call.dst) = 256
    /\ ret.exp.err = ""
    /\ Len(ret.exp.dstPrime) = HashSize[call.id] + 1

\* C5, as stated: ExpandXMD panics when it is called with a DST longer than
\* 255 bytes.
LongDSTPanics ==
    (Returned /\ call.op = "ExpandXMD" /\ Len(call.dst) > 255) => (ret.err # "")

\* C5, amended: a DST longer than 255 bytes does not make ExpandXMD panic.
\* The DST is replaced by H("H2C-OVERSIZE-DST-" || DST) before the length
\* checks, so with such a DST ExpandXMD panics only for a requested length
\* that is too large, and otherwise expands with the shortened DST.
LongDSTShortened ==
    (Returned /\ call.op = "ExpandXMD" /\ Len(call.dst) > 255) =>
        /\ (ret.err = "") <=>
              (call.length <= 255 * HashSize[call.id] /\ call.length <= 65535)
        /\ (ret.err = "") =>
              /\ ret.exp.dstPrime
                    = ShortenedDST(call.id, call.dst) \o <<HashSize[call.id]>>
              /\ Len(ret.exp.out) = call.length

LongDSTExpands ==
    /\ Returned
    /\ call.op = "ExpandXMD"
    /\ Len(call.dst) = 300
    /\ call.length = HashSize[call.id] + 1
    /\ ret.err = ""
    /\ ret.exp.hashes = 4

\* C6: HashToFieldXMD and HashToFieldXOF return exactly count * ext integers,
\* the j-th of them (from 0) being the big-endian value of the bytes
\* [j * L, (j + 1) * L) of the expander's output, reduced modulo the modulus.
FieldCountTimesExt ==
    (Returned /\ call.op \in FieldOps /\ ret.err = "") =>
        /\ Len(ret.ints) = call.count * call.ext
        /\ \A j \in 1..Len(ret.ints) :
              ret.ints[j] = OS2IPModRange(0, ret.exp.out,
                                          (j - 1) * call.securityLength + 1,
                                          j * call.securityLength, Abs(call.modulo))

\* C7: every integer HashToFieldXMD / HashToFieldXOF returns for a positive
\* modulus lies in [0, modulus).
FieldRange ==
    (Returned /\ call.op \in FieldOps /\ ret.err = "" /\ call.modulo > 0) =>
        \A j \in 1..Len(ret.ints) : ret.ints[j] >= 0 /\ ret.ints[j] < call.modulo

FieldReduced ==
    /\ Returned
    /\ call.op = "HashToFieldXMD"
    /\ ret.err = ""
    /\ call.modulo = 7
    /\ call.count = 2
    /\ call.securityLength = 48
    /\ Len(ret.ints) = 2
    /\ \A j \in 1..2 : ret.ints[j] \in 0..6

\* The calls FuzzHashToFieldXMD does not skip: a DST of 1 to 255 bytes and a
\* product count * ext * securityLength of at most 65535 and at most 255
\* digests.
FuzzedFieldXMDCall ==
    /\ call.op = "HashToFieldXMD"
    /\ Len(call.dst) \in 1..MaxUint8
    /\ call.count * call.ext * call.securityLength <= MaxUint16
    /\ call.count * call.ext * call.securityLength <= 255 * HashSize[call.id]

\* C17: for every hash, every DST of 1 to 255 bytes, every modulus and every
\* count, ext, securityLength whose product is at most min(65535, 255 * b),
\* HashToFieldXMD returns without panicking.
FieldXMDNeverPanics ==
    (Returned /\ FuzzedFieldXMDCall) => (ret.err = "")

(***************************************************************************)
(* Properties of the NIST curves (specification SpecNist).                 *)
(***************************************************************************)
\* C8: two calls of the same public operation with the same (msg, DST)
\* return identical results, whatever other operations of the library, on
\* this or on other curves, ran before or between them.
Determinism ==
    \A h1 \in hist, h2 \in hist :
        (h1.op = h2.op /\ h1.curve = h2.curve) => (h1.res = h2.res)

\* C9: once a curve's descriptor is initialised nothing assigns to it any
\* more, and the initialiser of a curve assigns to that curve's descriptor
\* only.
DescriptorFrame ==
    \A w \in writes : w.to = w.by /\ w.onceOfTarget # "done"

\* C10: under every interleaving each curve's initialiser runs at most once,
\* and exactly once before a guarded operation goes on; every public
\* operation reads the descriptor only after the initialiser has completed.
InitOnceBeforeRead ==
    /\ \A c \in Curves : initRuns[c] <= 1
    /\ \A t \in Threads :
          (tpc[t].at = "body") =>
              (once[tpc[t].curve] = "done" /\ initRuns[tpc[t].curve] = 1)

(***************************************************************************)
(* Properties of affineToPoint (specification SpecAffine).                 *)
(***************************************************************************)
\* C11: concurrent calls on a NIST curve do not interfere: in every
\* interleaving the buffer a call hands to SetBytes is 0x04 || X || Y for the
\* x and y of that same call.
OwnCoordinatesHanded ==
    \A t \in Threads :
        (aff[t].at = "done") =>
            (aff[t].handed = Uncompressed(aff[t].curve, aff[t].x, aff[t].y))

(***************************************************************************)
(* Properties of ExpandXOF on a shared ExtendableHash (specification       *)
(* SpecXof).                                                               *)
(***************************************************************************)
\* C12: two calls of ExpandXOF that share one ExtendableHash and run
\* concurrently each return without error exactly their own requested number
\* of bytes, the bytes the call returns when it runs alone.
SharedXofStateless ==
    \A t \in Threads :
        (xo[t].at = "done") =>
            /\ xo[t].err = ""
            /\ Len(xo[t].out) = xo[t].length
            /\ xo[t].out = ExpandXOF(NewXof(ext.id), xo[t].input, xo[t].dst,
                                     xo[t].length).out

\* The scalar of the test input reduced modulo the order of curve c's own
\* group.
OwnOrderScalar(c) ==
    ScalarOf(HashToFieldXMD(initOf[c].hash, testHashToGroupInput,
                            testHashToGroupDST, 1, 1, initOf[c].secLength,
                            initOf[c].groupOrder))

\* C15: for each NIST curve, HashToScalar returns the scalar reduced modulo
\* that curve's own group order q, a value in [0, q), from the first call on
\* and whatever other curves have been initialised.
ScalarModOwnOrder ==
    \A h \in hist :
        (h.op = "HashToScalar") =>
            /\ h.res.err = ""
            /\ h.res = OwnOrderScalar(h.curve)
            /\ h.res.val[1] \in 0..(initOf[h.curve].groupOrder - 1)

(***************************************************************************)
(* Properties of the groups' operations (specification SpecGroups).        *)
(***************************************************************************)
\* C16: for every group and the same (msg, DST), the output of the uniform
\* operation (hash-to-curve, HashToGroup) differs from the output of the
\* non-uniform operation (encode-to-curve, EncodeToGroup).
UniformDiffersFromNonUniform ==
    (grp.roDone /\ grp.nuDone /\ grp.ro.err = "" /\ grp.nu.err = "") =>
        grp.ro # grp.nu

(***************************************************************************)
(* Properties of MapToCurveSSWU (specification SpecSswu).                  *)
(***************************************************************************)
InField(f, v) == v \in 0..(f.order - 1)

\* g(x) = x^3 + A * x + B modulo the order.
CurveRhs(f, a, b, x) ==
    (((((x * x) % f.order) * x) % f.order) + ((a * x) % f.order) + b) % f.order

OnCurve(f, a, b, x, y) == (y * y) % f.order = CurveRhs(f, a, b, x)

SswuReturned == sw.at = SswuSteps

\* C18: the (x, y) MapToCurveSSWU returns are in [0, p) and satisfy
\* y^2 = x^3 + A * x + B modulo p, also with the negative A = -3 and
\* Z = -10, -12, -4.
SswuOnCurve ==
    SswuReturned =>
        /\ InField(sw.fp, sw.x)
        /\ InField(sw.fp, sw.y)
        /\ OnCurve(sw.fp, sw.a, sw.b, sw.x, sw.y)

SswuNonSquareMapped ==
    /\ SswuReturned
    /\ sw.a = -3
    /\ sw.z = -10
    /\ sw.fe > 0
    /\ ~sw.isGx1Square
    /\ sw.y > 0
    /\ OnCurve(sw.fp, sw.a, sw.b, sw.x, sw.y)

\* C19: MapToCurveSSWU never inverts zero: tv4 = A * CMOV(Z, -tv2, tv2 != 0)
\* is not zero modulo p for any u, u = 0 included, and neither is its cube
\* tv6 that SqrtRatio inverts.
SswuNeverInvertsZero ==
    /\ (sw.at \in 8..24) => (Mod(sw.fp, sw.tv4) # 0)
    /\ (sw.at \in 14..17) => (Mod(sw.fp, sw.tv6) # 0)

SswuInvertedAtZeroU ==
    /\ sw.at = 25
    /\ sw.fe = 0
    /\ Mul(sw.fp, sw.tv4, Mul(sw.fp, sw.a, sw.z)) = 1

\* C20: every value a field facade operation writes is in [0, p), also when
\* an operand is the unreduced negative A = -3 or Z = -10, -12, -4; hence
\* each of tv1..tv6 is in [0, p) after every statement of MapToCurveSSWU.
SswuWritesReduced ==
    (sw.at \in 1..SswuSteps) =>
        /\ \A v \in sw.written : InField(sw.fp, v)
        /\ \A reg \in {"tv1", "tv2", "tv3", "tv4", "tv5", "tv6"} :
              InField(sw.fp, sw[reg])

(***************************************************************************)
(* Properties of I2osp (specification SpecI2osp).                          *)
(***************************************************************************)
\* 2^(8n) for n in 1..4, in halves.
TwoToThe8(n) ==
    CASE n = 1 -> [hi |-> 0, lo |-> 256]
      [] n = 2 -> [hi |-> 1, lo |-> 0]
      [] n = 3 -> [hi |-> 256, lo |-> 0]
      [] OTHER -> [hi |-> Half, lo |-> 0]

\* The big-endian value of at most 4 bytes, in halves.
OS2IPWide(b) ==
    LET pad == Zeros(4 - Len(b)) \o b
    IN  [hi |-> pad[1] * 256 + pad[2], lo |-> pad[3] * 256 + pad[4]]

I2ospFits == io.length \in 1..4 /\ ~WideAtLeast(io.value, TwoToThe8(io.length))

\* C13: for every n in 1..4 and every v with 0 <= v < 2^(8n), I2osp(v, n)
\* returns exactly n bytes whose big-endian value is v, in each of the four
\* length branches.
I2ospRoundTrip ==
    (io.at = "done" /\ I2ospFits) =>
        /\ io.ret.err = ""
        /\ Len(io.ret.out) = io.length
        /\ OS2IPWide(io.ret.out) = io.value

\* C14: I2osp(v, n) panics with the length error when n is 0 or n > 4,
\* whatever v is, and with the value-out-of-range error when 1 <= n <= 4 and
\* v >= 2^(8n), n = 4 with v = 2^32 on a 64-bit uint included; it never returns
\* an encoding of a value that does not fit.
I2ospRejects ==
    (io.at = "done") =>
        /\ (io.length = 0) => (io.ret.err = "errLengthNegative")
        /\ (io.length > 4) => (io.ret.err = "errLengthTooBig")
        /\ (io.length \in 1..4 /\ ~I2ospFits) => (io.ret.err = "errInputLarge")
        /\ (io.ret.err = "") => I2ospFits

I2ospRejectsTwoTo32 ==
    /\ io.at = "done"
    /\ io.bits = 64
    /\ io.length = 4
    /\ io.value = [hi |-> Half, lo |-> 0]
    /\ io.ret.err = "errInputLarge"

(***************************************************************************)
(* Properties of Field.SqrtRatio (specification SpecSqrtRatio).            *)
(***************************************************************************)
\* e / v modulo p: the q in [0, p) with q * v = e.
Quotient(p, e, v) == CHOOSE q \in 0..(p - 1) : (q * v) % p = e % p

SqrtRatioReturned == pf.at = "done" /\ pf.fn = "SqrtRatio"

\* The square of what SqrtRatio stored is the quotient q, or Z * q.
SqrtRatioRelation(p, z, q, r) ==
    /\ r.square <=> IsQuadraticResidue(q, p)
    /\ r.square => ((r.res * r.res) % p = q)
    /\ ~r.square => ((r.res * r.res) % p = (z * q) % p)

\* C21: for a prime p = 3 mod 4, a non-square Z and all u, v in [0, p) with
\* v # 0, SqrtRatio returns true exactly when u / v is a quadratic residue,
\* and the value it stores satisfies res^2 = u / v when it returns true and
\* res^2 = Z * u / v when it returns false.
SqrtRatioCorrect ==
    SqrtRatioReturned =>
        SqrtRatioRelation(pf.args.fp.order, pf.args.z,
                          Quotient(pf.args.fp.order, pf.args.e, pf.args.v),
                          pf.ret)

SqrtRatioOfNonSquare ==
    /\ SqrtRatioReturned
    /\ pf.args.fp.order = 19
    /\ pf.args.z = -4
    /\ pf.args.e = 4
    /\ pf.args.v = 2
    /\ ~pf.ret.square
    /\ (pf.ret.res * pf.ret.res) % 19 = (-4 * 2) % 19

(***************************************************************************)
(* Properties of xmd (specification SpecXmd).                              *)
(***************************************************************************)
\* H(parts) computed by a hash object of its own.
FreshDigest(id, parts) == HashSum(WriteAll(NewHash(id), parts, 1))

\* The DST the expansion uses: the DST, or H("H2C-OVERSIZE-DST-" || DST).
ReferenceDst(id, dst) ==
    IF Len(dst) <= dstMaxLength THEN dst
    ELSE FreshDigest(id, <<dstLongPrefix, dst>>)

ReferenceDstPrime(id, dst) ==
    Append(ReferenceDst(id, dst), Len(ReferenceDst(id, dst)))

\* b0 = H(Z_pad || msg || l_i_b_str || 0 || dst')
ReferenceB0(id, input, dst, length) ==
    FreshDigest(id, <<Zeros(HashBlockSize[id]), input,
                      <<length \div 256, length % 256>>, <<0>>,
                      ReferenceDstPrime(id, dst)>>)

\* b_i = H((b_(i-1) XOR b0) || i || dst'), b_0 XOR'ed out for i = 1.
ReferenceBlock(id, prev, b0, i, dstPrime) ==
    FreshDigest(id, <<[k \in 1..Len(prev) |-> XorByte(prev[k], b0[k])], <<i>>,
                      dstPrime>>)

XmdIterated == xm.at = "loop" /\ xm.m.i > 2

\* C22: the in-place XOR of the loop of xmd gives what the pure reference
\* gives: block i, for 2 <= i <= ell <= 255, is
\* H((b_(i-1) XOR b0) || byte(i) || dst'); b0 is not changed by the loop; the
\* blocks already appended are not altered by a later XOR; and the shared
\* hash object is reset before each digest, the one of an oversize DST
\* included, so that no digest depends on what an earlier one absorbed.
XmdInPlaceEqualsPure ==
    /\ (xm.at = "loop") =>
          /\ xm.m.b0 = xm.b0At
          /\ xm.m.b0 = ReferenceB0(xm.id, xm.input, xm.dst, xm.length)
          /\ xm.m.dstPrime = ReferenceDstPrime(xm.id, xm.dst)
          /\ xm.m.b1 = FreshDigest(xm.id, <<xm.m.b0, <<1>>, xm.m.dstPrime>>)
          /\ SubSeq(xm.m.uniformBytes, 1, Len(xm.m.b1)) = xm.m.b1
    /\ XmdIterated =>
          /\ xm.m.bi = ReferenceBlock(xm.id, xm.prevBi, xm.b0At, xm.m.i - 1,
                                      xm.m.dstPrime)
          /\ xm.m.uniformBytes = xm.uniformBefore \o xm.m.bi
          /\ SubSeq(xm.uniformBefore, Len(xm.uniformBefore) - Len(xm.prevBi) + 1,
                    Len(xm.uniformBefore)) = xm.prevBi

XmdLastBlockOfOversize ==
    /\ XmdIterated
    /\ xm.m.i = 256
    /\ xm.m.ell = 255
    /\ Len(xm.dst) > dstMaxLength
    /\ Len(xm.m.uniformBytes) = 255 * HashSize[xm.id]
    /\ xm.m.bi # xm.prevBi

XmdReturned == xm.at = "done"

\* The digests an accepted call computes: b0, the blocks b1..b_ell, and the
\* digest of a DST of more than 255 bytes.
XmdDigests(ell, dst) == 1 + ell + (IF Len(dst) > dstMaxLength THEN 1 ELSE 0)

\* C23 as stated: one ExpandXMD call performs at most 255 invocations of the
\* hash function, for every accepted length and every DST, an oversize one
\* that is hashed during vetting included.
XmdAtMost255Digests == XmdReturned => (xm.m.h.sums <= 255)

\* C23, amended: one accepted ExpandXMD call of ell >= 1 blocks performs
\* ell + 1 invocations of the hash function, and one more for a DST of more
\* than 255 bytes: at most 257.
XmdDigestCount ==
    XmdReturned =>
        /\ xm.m.h.sums = XmdDigests(CeilDiv(xm.length, HashSize[xm.id]), xm.dst)
        /\ xm.m.h.sums <= 257

Xmd257Digests ==
    /\ XmdReturned
    /\ Len(xm.dst) > dstMaxLength
    /\ Len(xm.out) = 255 * HashSize[xm.id]
    /\ xm.m.h.sums = 257


(***************************************************************************)
(* Properties of a sequential ExpandXOF (specification SpecExpandXof).      *)
(***************************************************************************)
XofSeqReturned ==
    /\ pf.fn = "ExpandXOF"
    /\ pf.at = "done"
    /\ pf.ret.err = ""

\* ceil(2k / 8) for the security level k of the XOF.
ShortTagSize(id) == CeilDiv(2 * XofSecurityLevel[id], 8)

\* The squeeze of size bytes after absorbing the parts, from a fresh state.
FreshSqueeze(id, parts, size) ==
    XofSqueeze(WriteAll([id |-> id, acc |-> 0, n |-> 0], parts, 1), size)

ShortTagPrime(id, dst) ==
    FreshSqueeze(id, <<dstLongPrefix, dst>>, ShortTagSize(id))
        \o <<ShortTagSize(id)>>

\* C24: for a DST longer than 255 bytes, the final hash of ExpandXOF absorbs
\* the shortened tag of ceil(2k/8) bytes followed by the byte of that size,
\* and squeezes the requested length, whatever output size the
\* ExtendableHash had before the call.
XofShortTagThenRequestedLength ==
    (XofSeqReturned /\ Len(pf.args.dst) > dstMaxLength)
        => /\ pf.ret.dstPrime = ShortTagPrime(pf.args.ext.id, pf.args.dst)
           /\ Len(pf.ret.dstPrime) = ShortTagSize(pf.args.ext.id) + 1
           /\ Len(pf.ret.out) = pf.args.length
           /\ pf.ret.out =
                  FreshSqueeze(pf.args.ext.id,
                               <<pf.args.input, I2osp(pf.args.length, 2).out,
                                 ShortTagPrime(pf.args.ext.id, pf.args.dst)>>,
                               pf.args.length)

\* An oversize DST on SHAKE256 whose output size was 48 before the call,
\* expanded to 300 bytes.
XofShortTagAfterOtherSize ==
    /\ XofSeqReturned
    /\ pf.args.ext = [id |-> "SHAKE256", size |-> 48]
    /\ Len(pf.args.dst) = dstMaxLength + 1
    /\ pf.args.length = 300
    /\ Len(pf.ret.dstPrime) = 65
    /\ Len(pf.ret.out) = 300

(***************************************************************************)
(* Properties of adjust and HashToScalar of edwards25519 (SpecAdjust).      *)
(***************************************************************************)
\* The integer of a little-endian byte string, modulo m.
RECURSIVE LE2IPMod(_, _, _)
LE2IPMod(b, k, m) ==
    IF k > Len(b) THEN 0 ELSE (b[k] + 256 * LE2IPMod(b, k + 1, m)) % m

\* out is the little-endian encoding on 32 bytes of the integer whose minimal
\* big-endian encoding is in.
LittleEndianOf(in, out) ==
    /\ Len(out) = 32
    /\ \A k \in 1..32 :
          out[k] = IF k <= Len(in) THEN in[Len(in) + 1 - k] ELSE 0
    /\ \A m \in {251, 127} :
          LE2IPMod(out, 1, m) = OS2IPModRange(0, in, 1, Len(in), m)

AdjustIsLittleEndian ==
    (pf.fn = "adjust" /\ pf.at = "done") => LittleEndianOf(pf.args, pf.ret)

HashToScalarAccepted ==
    (pf.fn = "HashToScalar" /\ pf.at = "done") => pf.ret.err = ""

\* C26: adjust returns the 32 little-endian bytes of its argument, and
\* HashToScalar does not panic in SetCanonicalBytes on a value hash_to_field
\* returned.
AdjustThenCanonical == AdjustIsLittleEndian /\ HashToScalarAccepted

(***************************************************************************)
(* Properties of the edwards25519 mapping (specification SpecEdwards).      *)
(***************************************************************************)
EdIdentity == [err |-> "", x |-> 0, y |-> 1]

\* k times the point, by repeated addition.
RECURSIVE EdTimes(_, _)
EdTimes(k, p) == IF k = 0 THEN EdIdentity ELSE PointAdd(EdTimes(k - 1, p), p)

EdOnCurve(p) == p.err = "" /\ OnEdwards(p.x, p.y)

EdReturned(fn) == pf.fn = fn /\ pf.at = "done"

\* The returned point is 8 times the curve point s, in the subgroup of
\* order l.
EdClearedFrom(s) ==
    /\ EdOnCurve(s)
    /\ pf.ret.p0 = EdTimes(8, s)
    /\ EdOnCurve(pf.ret.p0)
    /\ EdTimes(curve25519.l, pf.ret.p0) = EdIdentity

\* C25: HashToCurve maps both elements, adds the points and multiplies the
\* sum by the cofactor 8 once; EncodeToCurve maps the element and multiplies
\* by 8 once; the returned point is 8 times a curve point and in the
\* prime-order subgroup.
EdCofactorClearedOnce ==
    /\ EdReturned("HashToCurve")
          => /\ pf.ret.ops = <<"map", "map", "add", "cofactor">>
             /\ EdClearedFrom(PointAdd(Elligator2Edwards(pf.args[1]),
                                       Elligator2Edwards(pf.args[2])))
    /\ EdReturned("EncodeToCurve")
          => /\ pf.ret.ops = <<"map", "cofactor">>
             /\ EdClearedFrom(Elligator2Edwards(pf.args[1]))

\* HashToCurve of two low-order points: u0 = 0 is mapped to (0, -1), of
\* order 2, u1 = 5 to (50, 0), of order 4; the sum (11, 0) has order 4 and
\* the returned point is the identity.
EdClearedLowOrderSum ==
    /\ EdReturned("HashToCurve")
    /\ pf.args = <<0, 5>>
    /\ Elligator2Edwards(0) = [err |-> "", x |-> 0, y |-> 60]
    /\ Elligator2Edwards(5) = [err |-> "", x |-> 50, y |-> 0]
    /\ EdTimes(4, Elligator2Edwards(5)) = EdIdentity
    /\ EdTimes(2, Elligator2Edwards(5)) # EdIdentity
    /\ pf.ret.p0 = EdIdentity

\* 1 + Z*u^2 with Z = 2
EllDenominator(e) == FeAdd(1, FeMultiply(2, FeSquare(e)))

EllDenominatorNotZero ==
    EdReturned("Elligator2Montgomery") => EllDenominator(pf.args[1]) # 0

(***************************************************************************)
(* Properties of the secp256k1 mapping (specification SpecSecp).            *)
(***************************************************************************)
SecpP == secp256k1.fp.order

\* c3*x^3 + c2*x^2 + c1*x + c0 modulo p
Cubic(c3, c2, c1, c0, x) == (((((c3 * x + c2) % SecpP) * x + c1) % SecpP) * x + c0) % SecpP

IsoK1(x) == Cubic(secp256k1.k13, secp256k1.k12, secp256k1.k11, secp256k1.k10, x)
IsoK2(x) == Cubic(0, 1, secp256k1.k21, secp256k1.k20, x)
IsoK3(x) == Cubic(secp256k1.k33, secp256k1.k32, secp256k1.k31, secp256k1.k30, x)
IsoK4(x) == Cubic(1, secp256k1.k42, secp256k1.k41, secp256k1.k40, x)

SecpDone ==
    /\ pf.fn \in {"HashToCurve", "EncodeToCurve", "IsogenySecp256k13iso"}
    /\ pf.at = "done"

IsoDenominatorZero(x) == IsoK2(x) = 0 \/ IsoK4(x) = 0

\* The part of the claim on isIdentity, the sentinel and the coordinates.
IsogenyIdentityOrQuotients ==
    /\ pf.ret.iso.isIdentity <=> IsoDenominatorZero(pf.ret.sum.X)
    /\ pf.ret.iso.isIdentity
          => /\ pf.ret.out = newPoint(0, 0)
             /\ pf.ret.bytes = Zeros(33)
    /\ ~pf.ret.iso.isIdentity
          => /\ pf.ret.out.X \in SecpFieldElements
             /\ pf.ret.out.Y \in SecpFieldElements
             /\ (pf.ret.out.X * IsoK2(pf.ret.sum.X)) % SecpP = IsoK1(pf.ret.sum.X)
             /\ (pf.ret.out.Y * IsoK4(pf.ret.sum.X)) % SecpP
                    = (pf.ret.sum.Y * IsoK3(pf.ret.sum.X)) % SecpP

\* 0x02 or 0x03 by the parity of y, then x on 32 bytes.
CompressedByParity(p) == <<2 + (p.Y % 2)>> \o FillBytes(p.X, 32)

OnIsoCurve(p) ==
    OnCurve(secp256k1.fp, secp256k1.secp256k13ISOA, secp256k1.secp256k13ISOB,
            p.X, p.Y)

Infinity == newPoint(-2, -2)

\* The image of a point of the group by the isogeny, the sentinel (0, 0) for
\* the point at infinity.
IsoMap(p) == IF p = Infinity THEN newPoint(0, 0) ELSE isogeny3iso(p)

\* The sum of two affine points of y^2 = x^3 + A'x + B' for the slope l.
ChordSum(p, q, l) ==
    newPoint((l * l - p.X - q.X) % SecpP,
             (l * ((p.X - ((l * l - p.X - q.X) % SecpP)) % SecpP) - p.Y) % SecpP)

\* The sum in the group of the isogenous curve: the chord for distinct
\* abscissas, the tangent for a doubling, the point at infinity for
\* opposite points.
GroupSum(p, q) ==
    IF p.X # q.X
    THEN ChordSum(p, q, ((q.Y - p.Y) * Inv(secp256k1.fp, q.X - p.X)) % SecpP)
    ELSE IF (p.Y + q.Y) % SecpP = 0 THEN Infinity
    ELSE ChordSum(p, q, ((3 * p.X * p.X + secp256k1.secp256k13ISOA)
                            * Inv(secp256k1.fp, 2 * p.Y)) % SecpP)

SecpAdded ==
    /\ pf.fn = "HashToCurve"
    /\ pf.at \in {"added", "returned", "done"}

\* C29: the affine add of HashToCurve returns the sum of the group for
\* every pair of mapped points, Q0 = Q1 and Q0 = -Q1 included, and
\* HashToCurve returns the image of that sum by the isogeny.
AddIsGroupSum ==
    SecpAdded =>
        /\ pf.ret.sum = GroupSum(pf.ret.q0, pf.ret.q1)
        /\ pf.at = "done" => pf.ret.out = IsoMap(GroupSum(pf.ret.q0, pf.ret.q1))

\* The add is the sum of the group when the abscissas differ.
AddIsChordSum ==
    (SecpAdded /\ pf.ret.q0.X # pf.ret.q1.X)
        => /\ pf.ret.sum = GroupSum(pf.ret.q0, pf.ret.q1)
           /\ OnIsoCurve(pf.ret.sum)

\* With equal abscissas the add returns (-2*x1, -y1).
AddOfEqualAbscissas ==
    (SecpAdded /\ pf.ret.q0.X = pf.ret.q1.X)
        => pf.ret.sum = newPoint((-2 * pf.ret.q0.X) % SecpP, (-pf.ret.q0.Y) % SecpP)

(***************************************************************************)
(* Properties of the caller's memory (specification SpecFrame).             *)
(***************************************************************************)
FrameReturned == pf.fn \in FrameOps /\ pf.at = "done" /\ pf.ret.err = ""

\* C30: after ExpandXMD, DstPrime and HashToFieldXMD the bytes of the DST and
\* the bytes of the caller's buffer beyond len(dst), within the capacity of
\* the slice, are those of before the call.
CallerMemoryUnchanged == FrameReturned => pf.ret.arr = pf.args.dst.arr

\* The bytes of the DST itself are unchanged.
DstBytesUnchanged ==
    FrameReturned
        => SubSeq(pf.ret.arr, 1, pf.args.dst.len) = SliceBytes(pf.args.dst)

\* The caller's buffer is unchanged when the slice has no spare capacity or
\* the DST is longer than 255 bytes.
MemoryUnchangedWithoutSpare ==
    (FrameReturned /\ (Len(pf.args.dst.arr) = pf.args.dst.len
                          \/ (pf.fn # "DstPrime" /\ pf.args.dst.len > dstMaxLength)))
        => pf.ret.arr = pf.args.dst.arr
====
